---- MODULE Spec2Model ----
(***************************************************************************)
(* RCXcloud Secure Core: keystore lifecycle, global kill fuse, replay log, *)
(* terminal kill executor, file-chunk AEAD pipeline and the bridge.        *)
(*                                                                         *)
(* Cryptographic primitives of external crates (Argon2id, HKDF-SHA256,     *)
(* HMAC-SHA256, AES-256-GCM) are modelled as free constructors: the output *)
(* of a primitive is a term naming the primitive and its inputs, so two    *)
(* outputs are equal exactly when primitive and inputs are equal.          *)
(*                                                                         *)
(* A caller-visible buffer is a sequence of cells.  A cell is a literal    *)
(* byte <<"b", n>>, a ciphertext byte <<"gcm-ct", key, nonce, i, p>>, a    *)
(* tag byte <<"gcm-tag", key, nonce, aad, ct, j>>, or one of these with a  *)
(* bit flipped <<"flip", cell, bit>>.  Byte strings that never leave the   *)
(* core (AAD, file contents) are sequences of numbers; the fixed labels    *)
(* are strings with the text of the byte literal in the source.            *)
(* A u64 that is fed to to_be_bytes is carried as its 8 big-endian bytes.  *)
(***************************************************************************)
EXTENDS Integers, Sequences, FiniteSets, TLC

(* ───────────── bounds of the model ───────────── *)

\* longest plaintext drawn for a chunk
MaxLen == 1
\* largest replay token drawn
MaxToken == 3

(* ───────────── program constants ───────────── *)

TAG_LEN == 16
NONCE_LEN == 12
MAX_CHUNK_SIZE == 4 * 1024 * 1024
AAD_VERSION_V1 == 1

\* BridgeError discriminants
BridgeError ==
  [Ok |-> 0, Locked |-> 1, Killed |-> 2, InvalidInput |-> 3,
   CryptoFailure |-> 4, IntegrityFailure |-> 5, Denied |-> 6]

\* const INTEGRITY_CONTEXT: u64 = 0x494E544547524954, as to_be_bytes() gives it
INTEGRITY_CONTEXT == <<73, 78, 84, 69, 71, 82, 73, 84>>

\* salt passed by recover_from_phrase: b"rcxcloud-recovery-v1"
RECOVERY_SALT == "rcxcloud-recovery-v1"

\* const NONCE_LABEL_FILE = b"rcxcloud:file:nonce:v1"
NONCE_LABEL_FILE == "rcxcloud:file:nonce:v1"

\* b"KILLED"
KILLED_RECORD == <<75, 73, 76, 76, 69, 68>>

(* ───────────── byte helpers ───────────── *)

RECURSIVE ToBeBytes(_, _)
\* uN::to_be_bytes for a value n of width w bytes
ToBeBytes(n, w) ==
  IF w = 0 THEN <<>> ELSE Append(ToBeBytes(n \div 256, w - 1), n % 256)

RECURSIVE FromBeBytes(_)
\* u64::from_be_bytes
FromBeBytes(s) ==
  IF s = <<>> THEN 0
  ELSE 256 * FromBeBytes(SubSeq(s, 1, Len(s) - 1)) + s[Len(s)]

\* a literal byte of a caller-visible buffer
B(n) == <<"b", n>>

\* slice.fill(0): same length, every cell the literal byte 0
Zeroed(buf) == [i \in 1..Len(buf) |-> B(0)]

\* a caller's output buffer of length n before the call (stale, non-zero)
Stale(n) == [i \in 1..n |-> B(170)]

AllZero(buf) == \A i \in 1..Len(buf) : buf[i] = B(0)

\* the element of a one-element set: Only({e(r) : r \in {call}}) is e of the
\* call's result, the call made once
Only(S) == CHOOSE v \in S : TRUE

(* ───────────── crypto::derive ───────────── *)

\* Purpose::label
PurposeLabel(purpose) ==
  CASE purpose = "FileEncryption" ->  \* b"rcx:file:enc:v1"
         <<114, 99, 120, 58, 102, 105, 108, 101, 58, 101, 110, 99, 58, 118, 49>>
    [] purpose = "Metadata" ->        \* b"rcx:meta:v1"
         <<114, 99, 120, 58, 109, 101, 116, 97, 58, 118, 49>>
    [] purpose = "Pairing" ->         \* b"rcx:pair:v1"
         <<114, 99, 120, 58, 112, 97, 105, 114, 58, 118, 49>>
    [] purpose = "Recovery" ->        \* b"rcx:recovery:v1"
         <<114, 99, 120, 58, 114, 101, 99, 111, 118, 101, 114, 121, 58, 118, 49>>

\* derive_key as it would be if the context were left out of the HKDF info
derive_key_no_context(parent, purpose, context_be) ==
  [ok |-> TRUE, key |-> <<"hkdf-sha256", parent, PurposeLabel(purpose)>>]

\* derive_key: HKDF-SHA256(salt = None, ikm = parent).expand(label || context_be)
\* Result [ok, key]; the label-length guard is the only failure path.
\* info is the byte string the code builds: the label bytes, then the 8 context
\* bytes.
derive_key(parent, purpose, context_be) ==
  LET label == PurposeLabel(purpose)
      info  == label \o context_be
  IN  IF Len(label) > 32
        THEN [ok |-> FALSE, key |-> <<"zeroed">>]
        ELSE [ok |-> TRUE, key |-> <<"hkdf-sha256", parent, info>>]

(* ───────────── crypto::nonce ───────────── *)

\* derive_nonce as it would be if the chunk index were left out of the MAC input
derive_nonce_no_chunk(key, file_id, chunk) ==
  <<"hmac-sha256/96", key, <<NONCE_LABEL_FILE>> \o ToBeBytes(file_id, 8)>>

\* derive_nonce: first 12 bytes of HMAC-SHA256(key, label || file_id_be || chunk_be)
derive_nonce(key, file_id, chunk) ==
  <<"hmac-sha256/96", key,
    <<NONCE_LABEL_FILE>> \o ToBeBytes(file_id, 8) \o ToBeBytes(chunk, 4)>>

(* ───────────── crypto::aad ───────────── *)

\* Aad::new: None unless version = 1
AadNew(file_id, chunk, cloud_id, version) ==
  IF version # AAD_VERSION_V1
    THEN [some |-> FALSE, file_id |-> 0, chunk |-> 0, cloud_id |-> 0, version |-> 0]
    ELSE [some |-> TRUE, file_id |-> file_id, chunk |-> chunk,
          cloud_id |-> cloud_id, version |-> version]

\* Aad::serialize as it would be if it left the cloud id out
AadSerialize_no_cloud(aad) ==
  ToBeBytes(aad.file_id, 8) \o ToBeBytes(aad.chunk, 4) \o <<0, 0>> \o <<aad.version>>

\* Aad::serialize: file_id_be(8) || chunk_be(4) || cloud_id_be(2) || version(1)
AadSerialize(aad) ==
  ToBeBytes(aad.file_id, 8) \o ToBeBytes(aad.chunk, 4)
    \o ToBeBytes(aad.cloud_id, 2) \o <<aad.version>>

(* ───────────── crypto::aes_gcm ───────────── *)

\* ciphertext byte i of AES-256-GCM under (key, nonce) for plaintext cell p
GcmCt(key, nonce, i, p) == <<"gcm-ct", key, nonce, i, p>>

\* tag byte j of AES-256-GCM over (aad, ct) under (key, nonce)
GcmTag(key, nonce, aad, ct, j) == <<"gcm-tag", key, nonce, aad, ct, j>>

\* the inverse keystream step as it would be under a keystream off by one position
GcmPt_shifted(key, nonce, i, c) ==
  IF c[1] = "gcm-ct" /\ c[2] = key /\ c[3] = nonce /\ c[4] = i + 1
    THEN c[5]
    ELSE <<"gcm-pt", key, nonce, i, c>>

\* the inverse keystream step on one cell
GcmPt(key, nonce, i, c) ==
  IF c[1] = "gcm-ct" /\ c[2] = key /\ c[3] = nonce /\ c[4] = i
    THEN c[5]
    ELSE <<"gcm-pt", key, nonce, i, c>>

\* aes_gcm::seal: Result [ok, out]
seal(key, nonce, plaintext, aad, out) ==
  LET pt_len == Len(plaintext)
      ct     == [i \in 1..pt_len |-> GcmCt(key, nonce, i, plaintext[i])]
  IN  IF Len(out) # pt_len + TAG_LEN
        THEN [ok |-> FALSE, out |-> Zeroed(out)]
        ELSE [ok |-> TRUE,
              out |-> ct \o [j \in 1..TAG_LEN |-> GcmTag(key, nonce, aad, ct, j)]]

\* aes_gcm::open: Result [ok, out]; out is zeroed unless the tag verifies
open(key, nonce, input, aad, out) ==
  IF Len(input) < TAG_LEN THEN [ok |-> FALSE, out |-> Zeroed(out)]
  ELSE
    LET ct_len == Len(input) - TAG_LEN
        ct     == SubSeq(input, 1, ct_len)
        tag    == SubSeq(input, ct_len + 1, Len(input))
    IN  IF Len(out) # ct_len THEN [ok |-> FALSE, out |-> Zeroed(out)]
        ELSE IF tag # [j \in 1..TAG_LEN |-> GcmTag(key, nonce, aad, ct, j)]
          THEN [ok |-> FALSE, out |-> Zeroed(out)]
          ELSE [ok |-> TRUE,
                out |-> [i \in 1..ct_len |-> GcmPt(key, nonce, i, ct[i])]]

(* ───────────── crypto::kdf_argon2 ───────────── *)

\* Params::default()
DefaultParams == [mem_kib |-> 64 * 1024, time |-> 3, lanes |-> 1]

\* validate_inputs
validate_inputs(input, salt) == ~(Len(input) = 0 \/ Len(salt) = 0)

\* validate_params: MIN_MEM_KIB..=MAX_MEM_KIB, MIN_TIME..=MAX_TIME, MIN_LANES..=MAX_LANES
validate_params(params) ==
  /\ params.mem_kib \in (8 * 1024)..(512 * 1024)
  /\ params.time \in 1..10
  /\ params.lanes \in 1..4

\* bytes from..to-1 of the Argon2id hash of length outlen
Argon2idBytes(input, salt, params, outlen, from, to) ==
  <<"argon2id", input, salt, params, outlen, from, to>>

\* derive_two_keys: one 64-byte hash; root = tmp[..32], session = tmp[32..64]
derive_two_keys(input, salt, params) ==
  IF ~validate_inputs(input, salt) \/ ~validate_params(params)
    THEN [ok |-> FALSE, root |-> <<"zeroed">>, session |-> <<"zeroed">>]
    ELSE [ok |-> TRUE,
          root    |-> Argon2idBytes(input, salt, params, 64, 0, 32),
          session |-> Argon2idBytes(input, salt, params, 64, 32, 64)]

(* ───────────── integrity::verify ───────────── *)

\* verify_key_integrity: session must equal HKDF(master, Recovery, INTEGRITY_CONTEXT)
verify_key_integrity(master, session) ==
  LET expected == derive_key(master, "Recovery", INTEGRITY_CONTEXT)
  IN  expected.ok /\ session = expected.key

(* ───────────── keystore::recovery ───────────── *)

\* recover_from_phrase with RecoveryConfig::default(): Result [err, session]
recover_from_phrase(phrase) ==
  IF phrase = <<>> THEN [err |-> "InvalidInput", session |-> <<"none">>]
  ELSE Only({
    IF ~k.ok THEN [err |-> "KdfFailure", session |-> <<"none">>]
    ELSE IF ~verify_key_integrity(k.root, k.session)
      THEN [err |-> "IntegrityFailure", session |-> <<"none">>]
      ELSE [err |-> "Ok", session |-> k.session]
    : k \in {derive_two_keys(phrase, RECOVERY_SALT, DefaultParams)}})

(* ───────────── state ───────────── *)

VARIABLES
  GLOBAL_KILLED,  \* keystore::master::GLOBAL_KILLED (AtomicBool)
  state,          \* KeyStore.state, the value inside the Mutex
  poisoned,       \* poison flag of the KeyStore.state Mutex
  CORE_ID,        \* bridge::wasm CORE / CORE_ID (0: neither is set)
  LOG_ROOT,       \* logging::encrypted::LOG_ROOT is set
  fs,             \* contents of the files under the log root
  registry,       \* the DeviceRegistry value the caller holds
  kpc,            \* position of the thread running execute_kill
  ktrace,         \* steps execute_kill has completed, in order
  committed,      \* replay tokens check_and_commit has accepted, in order
  last,           \* the call that returned last, with what it observed
  wire,           \* output of the last successful encrypt_chunk, as the caller keeps it
  heap,           \* System allocations made for guarded cells, and what freed them
  pend,           \* the call a second thread is in the middle of
  master          \* the MasterKeyStore, its mutex, and the calls threads are in

vars ==
  <<GLOBAL_KILLED, state, poisoned, CORE_ID, LOG_ROOT, fs, registry,
    kpc, ktrace, committed, last, wire, heap, pend, master>>

FileNames == {"device_identity.bin", "device_kill.log", "kill_replay.log"}

\* State::Locked / State::Active(Session { session_key }) / State::Killed
StLocked == [tag |-> "Locked", key |-> <<"none">>]
StActive(k) == [tag |-> "Active", key |-> k]
StKilled == [tag |-> "Killed", key |-> <<"none">>]

NoRegistry == [some |-> FALSE, device_id |-> <<>>, fingerprint |-> <<>>]

\* no allocation made yet, no guarded cell held, nothing freed
NoHeap == [made |-> 0, live |-> {}, boxes |-> {}, freed |-> <<>>]

\* the second thread is between calls
NoPend == [op |-> "none", pc |-> "none", auth |-> <<"none">>]

NoCall ==
  [op |-> "none", err |-> <<"Ok">>, code |-> 0,
   invoked |-> FALSE, out |-> <<>>, verified |-> FALSE, args |-> <<>>]

NoWire ==
  [some |-> FALSE, key |-> <<"none">>, file_id |-> 0, cloud_id |-> 0,
   chunk |-> 0, pt |-> <<>>, ct |-> <<>>]

\* a call record: the arguments of the last call and what it returned
Call(op, err, code, invoked, out, verified, args) ==
  [op |-> op, err |-> err, code |-> code,
   invoked |-> invoked, out |-> out, verified |-> verified, args |-> args]

(* ───────────── keystore::master ───────────── *)

\* enum KeyState: Locked, Unlocked(key), Wiped
KeyState(tag, key) == [tag |-> tag, key |-> key]

\* the threads that call into one MasterKeyStore
MasterThreads == {1, 2, 3}

\* a thread that is in no MasterKeyStore call
NoMasterCall ==
  [op |-> "none", pc |-> "none", key |-> <<"none">>, fused |-> FALSE, seen |-> FALSE]

\* MasterKeyStore::new(), no call in progress, apply_verified_kill not yet done
NoMaster ==
  [state |-> KeyState("Locked", <<"none">>), holder |-> 0, poisoned |-> FALSE,
   applied |-> FALSE, calls |-> [t \in MasterThreads |-> NoMasterCall]]

\* MasterKeyStore::lock as it would be without the load of the fuse
MasterKeyStore_lock_unfused(st, killed) ==
  [err |-> "Ok", state |-> KeyState("Locked", <<"none">>)]

\* MasterKeyStore::unlock under the mutex: [err, state]; killed is the second
\* load of the fuse
MasterKeyStore_unlock(st, killed, key) ==
  IF killed THEN [err |-> "Wiped", state |-> st]
  ELSE IF st.tag = "Locked" THEN [err |-> "Ok", state |-> KeyState("Unlocked", key)]
  ELSE [err |-> "AlreadyUnlocked", state |-> st]

\* MasterKeyStore::lock under the mutex: [err, state]
MasterKeyStore_lock(st, killed) ==
  IF killed THEN [err |-> "Wiped", state |-> KeyState("Wiped", <<"none">>)]
  ELSE [err |-> "Ok", state |-> KeyState("Locked", <<"none">>)]

\* MasterKeyStore::with_key under the mutex: the closure runs, or the error
MasterKeyStore_with_key(st) ==
  CASE st.tag = "Unlocked" -> "closure"
    [] st.tag = "Locked" -> "Locked"
    [] st.tag = "Wiped" -> "Wiped"

\* the next step of the call thread t is in: what the store, the mutex, the
\* fuse and the call are afterwards; done with err when the call returns
MasterKeyStore_step(m, killed, t, panics) ==
  LET c    == m.calls[t]
      keep == [state |-> m.state, holder |-> m.holder, poisoned |-> m.poisoned,
               applied |-> m.applied, killed |-> killed, call |-> c,
               done |-> FALSE, err |-> "Ok", invoked |-> FALSE]
      ret(r, e) == [r EXCEPT !.done = TRUE, !.err = e, !.holder = 0]
  IN  CASE c.pc = "start" /\ c.op = "apply_verified_kill" ->
             [keep EXCEPT !.killed = TRUE, !.call.pc = "acquire"]
        [] c.pc = "start" /\ c.op = "lock" ->
             [keep EXCEPT !.call.pc = "acquire"]
        [] c.pc = "start" /\ c.op \in {"unlock", "with_key"} ->
             IF killed THEN [keep EXCEPT !.done = TRUE, !.err = "Wiped"]
                       ELSE [keep EXCEPT !.call.pc = "acquire"]
        [] c.pc = "acquire" ->
             IF m.poisoned
               THEN IF c.op = "apply_verified_kill"
                      THEN [keep EXCEPT !.done = TRUE, !.err = "Poisoned"]
                      ELSE [keep EXCEPT !.done = TRUE, !.err = "Poisoned",
                                        !.killed = TRUE]
               ELSE [keep EXCEPT !.holder = t, !.call.pc = "held"]
        [] c.pc = "held" /\ c.op = "apply_verified_kill" ->
             ret([keep EXCEPT !.state = KeyState("Wiped", <<"none">>),
                              !.applied = TRUE], "Ok")
        [] c.pc = "held" /\ c.op = "with_key" ->
             Only({IF w = "closure" THEN [keep EXCEPT !.call.pc = "closure"]
                                    ELSE ret(keep, w)
                   : w \in {MasterKeyStore_with_key(m.state)}})
        [] c.pc = "held" /\ c.op \in {"unlock", "lock"} ->
             [keep EXCEPT !.call.pc = "checked", !.call.seen = killed]
        [] c.pc = "checked" /\ c.op = "unlock" ->
             Only({ret([keep EXCEPT !.state = r.state], r.err)
                   : r \in {MasterKeyStore_unlock(m.state, c.seen, c.key)}})
        [] c.pc = "checked" /\ c.op = "lock" ->
             Only({ret([keep EXCEPT !.state = r.state], r.err)
                   : r \in {MasterKeyStore_lock(m.state, c.seen)}})
        [] c.pc = "closure" ->
             IF panics THEN ret([keep EXCEPT !.poisoned = TRUE, !.invoked = TRUE],
                                "panic")
                       ELSE ret([keep EXCEPT !.invoked = TRUE], "Ok")

(* ───────────── memory::guard ───────────── *)

\* size_of::<[u8; 32]>() of GuardedKey32
CELL_LEN == 32

\* allocations a run may make
MaxCells == 3

\* the allocation with the given id
CellAt(id) == CHOOSE a \in heap.live : a.id = id

\* Drop for GuardedBox as it would be without the zeroize call
GuardedBox_drop_unwiped(id) ==
  LET a == CellAt(id)
  IN  [made  |-> heap.made,
       live  |-> heap.live \ {a},
       boxes |-> heap.boxes \ {id},
       freed |-> <<[op |-> "munlock", id |-> id, bytes |-> a.bytes],
                   [op |-> "dealloc", id |-> id, bytes |-> a.bytes]>>]

\* Drop for GuardedBox: zeroize, unlock, dealloc; freed lists the three calls
\* with the bytes each one found
GuardedBox_drop(id) ==
  LET a == CellAt(id)
      z == Zeroed(a.bytes)
  IN  [made  |-> heap.made,
       live  |-> heap.live \ {a},
       boxes |-> heap.boxes \ {id},
       freed |-> <<[op |-> "zeroize", id |-> id, bytes |-> a.bytes],
                   [op |-> "munlock", id |-> id, bytes |-> z],
                   [op |-> "dealloc", id |-> id, bytes |-> z]>>]

\* GuardedBox::init_with.  outcome: "alloc_fails" (System.alloc gave null),
\* "lock_fails" (mlock refused), "init_panics" (the initializer panicked after
\* writing the first `written` bytes) or "ok"; the initializer writes fill.
GuardedBox_init_with(outcome, fill, written) ==
  LET id  == heap.made + 1
      raw == [id |-> id, bytes |-> [i \in 1..CELL_LEN |-> <<"uninit">>],
              locked |-> FALSE]
      locked == [raw EXCEPT !.locked = TRUE]
      part == [i \in 1..CELL_LEN |-> IF i <= written THEN B(fill) ELSE raw.bytes[i]]
      \* Drop for InitGuard
      z   == Zeroed(part)
  IN  IF outcome = "alloc_fails" THEN heap
      ELSE IF outcome = "lock_fails"
        THEN [heap EXCEPT !.made = id, !.live = @ \cup {raw}]
      ELSE IF outcome = "init_panics"
        THEN [heap EXCEPT !.made = id,
                          !.freed = <<[op |-> "zeroize", id |-> id, bytes |-> part],
                                      [op |-> "munlock", id |-> id, bytes |-> z],
                                      [op |-> "dealloc", id |-> id, bytes |-> z]>>]
      ELSE [heap EXCEPT !.made = id,
                        !.live = @ \cup {[locked EXCEPT
                                            !.bytes = [i \in 1..CELL_LEN |-> B(fill)]]},
                        !.boxes = @ \cup {id}]

(* ───────────── logging::encrypted ───────────── *)

\* open_append / open_overwrite (with open_internal and log_root): Ok or Err
open_append == ~GLOBAL_KILLED /\ LOG_ROOT

open_overwrite == ~GLOBAL_KILLED /\ LOG_ROOT

\* append_record as it would be without the load of the fuse
append_record_unfused(file, data) ==
  [ok |-> TRUE, file |-> file \o ToBeBytes(Len(data), 4) \o data]

\* append_record: [ok, file]
append_record(file, data) ==
  IF GLOBAL_KILLED THEN [ok |-> FALSE, file |-> file]
  ELSE [ok |-> TRUE, file |-> file \o ToBeBytes(Len(data), 4) \o data]

\* has_any_content: metadata_ok is whether file.metadata() succeeds
has_any_content(file, metadata_ok) == IF metadata_ok THEN Len(file) > 0 ELSE TRUE

\* append_u64: [ok, file]
append_u64(file, value) ==
  IF GLOBAL_KILLED THEN [ok |-> FALSE, file |-> file]
  ELSE [ok |-> TRUE, file |-> file \o ToBeBytes(value, 8)]

\* read_last_u64 as it would be if it read the first record instead of the last
read_last_u64_first(file) ==
  LET len == Len(file)
  IN  IF len < 8 THEN [ok |-> TRUE, some |-> FALSE, v |-> 0]
      ELSE IF len % 8 # 0 THEN [ok |-> FALSE, some |-> FALSE, v |-> 0]
      ELSE [ok |-> TRUE, some |-> TRUE, v |-> FromBeBytes(SubSeq(file, 1, 8))]

\* read_last_u64: [ok, some, v]  (Ok(Some(v)) / Ok(None) / Err)
read_last_u64(file) ==
  LET len == Len(file)
  IN  IF len < 8 THEN [ok |-> TRUE, some |-> FALSE, v |-> 0]
      ELSE IF len % 8 # 0 THEN [ok |-> FALSE, some |-> FALSE, v |-> 0]
      ELSE [ok |-> TRUE, some |-> TRUE,
            v |-> FromBeBytes(SubSeq(file, len - 7, len))]

\* write_fixed: [ok, file]
write_fixed(file, data) ==
  IF GLOBAL_KILLED THEN [ok |-> FALSE, file |-> file]
  ELSE [ok |-> TRUE, file |-> data]

\* read_fixed: [some, buf]
read_fixed(file) == [some |-> file # <<>>, buf |-> file]

(* ───────────── kill::replay ───────────── *)

\* check_and_commit as it would be if it appended the token before comparing it
check_and_commit_eager(token) ==
  LET file == fs["device_kill.log"]
      r    == read_last_u64(file)
      lastv == IF r.some THEN r.v ELSE 0
      a    == append_u64(file, token)
  IN  IF ~open_append THEN [ret |-> FALSE, file |-> file]
      ELSE IF ~r.ok THEN [ret |-> FALSE, file |-> file]
      ELSE IF token <= lastv THEN [ret |-> FALSE, file |-> a.file]
      ELSE [ret |-> a.ok, file |-> a.file]

\* check_and_commit: [ret, file] over the log that open_device_kill_log opens
check_and_commit(token) ==
  LET file == fs["device_kill.log"]
      r    == read_last_u64(file)
      lastv == IF r.some THEN r.v ELSE 0
  IN  IF ~open_append THEN [ret |-> FALSE, file |-> file]
      ELSE IF ~r.ok THEN [ret |-> FALSE, file |-> file]
      ELSE IF token <= lastv THEN [ret |-> FALSE, file |-> file]
      ELSE LET a == append_u64(file, token)
           IN  [ret |-> a.ok, file |-> a.file]

(* ───────────── device::registry ───────────── *)

\* hash_sha256: the 32 bytes of the digest of data
hash_sha256(data) == [i \in 1..32 |-> <<"sha256", data, i>>]

\* DeviceFingerprint::from_material: first 8 digest bytes, read big-endian
from_material(material) == SubSeq(hash_sha256(material), 1, 8)

\* decode_identity: [err, reg]
decode_identity(buf) ==
  IF Len(buf) # 40 THEN [err |-> "Corrupt", reg |-> NoRegistry]
  ELSE [err |-> "Ok",
        reg |-> [some |-> TRUE, device_id |-> SubSeq(buf, 1, 32),
                 fingerprint |-> SubSeq(buf, 33, 40)]]

\* load_or_init as it would be if it derived and stored the identity on every call
load_or_init_rewriting(device_material) ==
  LET file == fs["device_identity.bin"]
      hash == hash_sha256(device_material)
      fingerprint == from_material(device_material)
      w    == write_fixed(file, hash \o fingerprint)
  IN  IF ~open_overwrite THEN [err |-> "Storage", reg |-> NoRegistry, file |-> file]
      ELSE IF ~w.ok THEN [err |-> "Storage", reg |-> NoRegistry, file |-> file]
      ELSE [err |-> "Ok",
            reg |-> [some |-> TRUE, device_id |-> hash, fingerprint |-> fingerprint],
            file |-> w.file]

\* load_or_init: [err, reg, file]
load_or_init(device_material) ==
  LET file == fs["device_identity.bin"]
      rd   == read_fixed(file)
      hash == hash_sha256(device_material)
      fingerprint == from_material(device_material)
      w    == write_fixed(file, hash \o fingerprint)
  IN  IF ~open_overwrite THEN [err |-> "Storage", reg |-> NoRegistry, file |-> file]
      ELSE IF rd.some
        THEN LET d == decode_identity(rd.buf)
             IN  [err |-> d.err, reg |-> d.reg, file |-> file]
      ELSE IF ~w.ok THEN [err |-> "Storage", reg |-> NoRegistry, file |-> file]
      ELSE [err |-> "Ok",
            reg |-> [some |-> TRUE, device_id |-> hash, fingerprint |-> fingerprint],
            file |-> w.file]

\* mark_this_device_killed: [err, file]
mark_this_device_killed ==
  LET file == fs["device_kill.log"]
      a    == append_record(file, KILLED_RECORD)
  IN  IF ~open_append THEN [err |-> "Storage", file |-> file]
      ELSE IF ~a.ok THEN [err |-> "Storage", file |-> file]
      ELSE [err |-> "Ok", file |-> a.file]

\* DeviceRegistry::is_killed
\* DeviceRegistry::is_killed as it would be if a log that cannot be opened
\* counted as absent
registry_is_killed_open(io) ==
  IF ~open_append \/ io = "open_err" THEN FALSE
  ELSE has_any_content(fs["device_kill.log"], io # "metadata_err")

\* DeviceRegistry::is_killed; io is what the filesystem does to this call:
\* "ok", "open_err" (create_dir_all or open fails), "metadata_err"
registry_is_killed(io) ==
  IF ~open_append \/ io = "open_err" THEN TRUE
  ELSE has_any_content(fs["device_kill.log"], io # "metadata_err")

(* ───────────── policy ───────────── *)

\* CAPS_STANDARD, CAPS_ADMIN, CAPS_LOCKED
CAPS ==
  [STANDARD |-> {"Encrypt", "Decrypt", "Upload", "Download", "Restore",
                 "ViewStatus", "RouteContent"},
   ADMIN    |-> {"Encrypt", "Decrypt", "Upload", "Download", "Restore",
                 "ViewStatus", "RouteContent", "ModifyPolicy", "RegisterDevice",
                 "RemoveDevice", "RenameDevice", "IssueKill"},
   LOCKED   |-> {}]

\* the match of PolicyEnforcer::allow: the capability each Operation asks for
OperationCapability ==
  [Upload |-> "Upload", Download |-> "Download", Restore |-> "Restore",
   Route |-> "RouteContent", ViewStatus |-> "ViewStatus",
   RegisterDevice |-> "RegisterDevice", RemoveDevice |-> "RemoveDevice",
   IssueKill |-> "IssueKill"]

\* PolicyEnforcer::allow as it would be if it looked at the fuse only
PolicyEnforcer_allow_fuse_only(caps, op, io) ==
  IF GLOBAL_KILLED THEN FALSE ELSE OperationCapability[op] \in caps

\* PolicyEnforcer::allow; io is what the filesystem does to registry.is_killed()
PolicyEnforcer_allow(caps, op, io) ==
  IF GLOBAL_KILLED \/ registry_is_killed(io) THEN FALSE
  ELSE OperationCapability[op] \in caps

(* ───────────── keystore::session ───────────── *)

\* Session::encrypt as it would be if the nonce were derived from the cloud id
\* in place of the file id
Session_encrypt_cloud_nonce(session_key, killed1, killed2, plaintext, aad, out) ==
  IF killed1 THEN [err |-> "Killed", out |-> out]
  ELSE IF session_key = <<"none">> THEN [err |-> "Locked", out |-> out]
  ELSE IF Len(out) # Len(plaintext) + TAG_LEN
    THEN [err |-> "OutputTooSmall", out |-> Zeroed(out)]
  ELSE Only({
    IF ~dk.ok THEN [err |-> "CryptoFailure", out |-> Zeroed(out)]
    ELSE IF killed2 THEN [err |-> "Killed", out |-> Zeroed(out)]
    ELSE Only({
      IF ~sealed.ok THEN [err |-> "CryptoFailure", out |-> Zeroed(out)]
      ELSE [err |-> "Ok", out |-> sealed.out]
      : sealed \in {seal(dk.key, derive_nonce(dk.key, aad.cloud_id, aad.chunk),
                         plaintext, AadSerialize(aad), out)}})
    : dk \in {derive_key(session_key, "FileEncryption", ToBeBytes(aad.file_id, 8))}})

\* Session::encrypt: [err, out].  killed1 and killed2 are the two loads of
\* GLOBAL_KILLED (require_alive, and the re-check after derive_key).
Session_encrypt(session_key, killed1, killed2, plaintext, aad, out) ==
  IF killed1 THEN [err |-> "Killed", out |-> out]
  ELSE IF session_key = <<"none">> THEN [err |-> "Locked", out |-> out]
  ELSE IF Len(out) # Len(plaintext) + TAG_LEN
    THEN [err |-> "OutputTooSmall", out |-> Zeroed(out)]
  ELSE Only({
    IF ~dk.ok THEN [err |-> "CryptoFailure", out |-> Zeroed(out)]
    ELSE IF killed2 THEN [err |-> "Killed", out |-> Zeroed(out)]
    ELSE Only({
      IF ~sealed.ok THEN [err |-> "CryptoFailure", out |-> Zeroed(out)]
      ELSE [err |-> "Ok", out |-> sealed.out]
      : sealed \in {seal(dk.key, derive_nonce(dk.key, aad.file_id, aad.chunk),
                         plaintext, AadSerialize(aad), out)}})
    : dk \in {derive_key(session_key, "FileEncryption", ToBeBytes(aad.file_id, 8))}})

\* Session::decrypt_verify: [err, verified, out]
Session_decrypt_verify(session_key, killed1, killed2, input, aad, out) ==
  IF killed1 THEN [err |-> "Killed", verified |-> FALSE, out |-> out]
  ELSE IF session_key = <<"none">>
    THEN [err |-> "Locked", verified |-> FALSE, out |-> out]
  ELSE IF Len(input) < TAG_LEN
    THEN [err |-> "InvalidInput", verified |-> FALSE, out |-> Zeroed(out)]
  ELSE IF Len(out) # Len(input) - TAG_LEN
    THEN [err |-> "OutputTooSmall", verified |-> FALSE, out |-> Zeroed(out)]
  ELSE Only({
    IF ~dk.ok
      THEN [err |-> "CryptoFailure", verified |-> FALSE, out |-> Zeroed(out)]
    ELSE IF killed2
      THEN [err |-> "Killed", verified |-> FALSE, out |-> Zeroed(out)]
    ELSE Only({
      IF ~opened.ok
        THEN [err |-> "Ok", verified |-> FALSE, out |-> Zeroed(opened.out)]
        ELSE [err |-> "Ok", verified |-> TRUE, out |-> opened.out]
      : opened \in {open(dk.key, derive_nonce(dk.key, aad.file_id, aad.chunk),
                         input, AadSerialize(aad), out)}})
    : dk \in {derive_key(session_key, "FileEncryption", ToBeBytes(aad.file_id, 8))}})

(* ───────────── crypto::file ───────────── *)

\* encrypt_chunk, input validation: the two tests on plaintext.len() and
\* out.len(), each of which fills out with 0 and returns its error
encrypt_chunk_validate(plaintext_len, out_len) ==
  IF plaintext_len > MAX_CHUNK_SIZE THEN "InvalidInput"
  ELSE IF out_len # plaintext_len + TAG_LEN THEN "OutputTooSmall"
  ELSE "Ok"

\* decrypt_chunk's input validation as it would be if the limit were put on the
\* whole input, tag included
decrypt_chunk_validate_total(ciphertext_len, out_len) ==
  IF ciphertext_len < TAG_LEN THEN "InvalidInput"
  ELSE IF ciphertext_len > MAX_CHUNK_SIZE THEN "InvalidInput"
  ELSE IF out_len # ciphertext_len - TAG_LEN THEN "OutputTooSmall"
  ELSE "Ok"

\* decrypt_chunk, input validation: the three tests on ciphertext.len() and
\* out.len(), each of which fills out with 0 and returns its error
decrypt_chunk_validate(ciphertext_len, out_len) ==
  IF ciphertext_len < TAG_LEN THEN "InvalidInput"
  ELSE IF ciphertext_len - TAG_LEN > MAX_CHUNK_SIZE THEN "InvalidInput"
  ELSE IF out_len # ciphertext_len - TAG_LEN THEN "OutputTooSmall"
  ELSE "Ok"

\* encrypt_chunk: [err, verified, out]  (verified is unused for encryption)
encrypt_chunk(session_key, killed1, killed2, file_id, cloud_id, chunk_index, plaintext, out) ==
  IF encrypt_chunk_validate(Len(plaintext), Len(out)) # "Ok"
    THEN [err |-> encrypt_chunk_validate(Len(plaintext), Len(out)),
          verified |-> FALSE, out |-> Zeroed(out)]
  ELSE Only({
    IF ~aad.some
      THEN [err |-> "InvalidInput", verified |-> FALSE, out |-> Zeroed(out)]
    ELSE Only({
      IF r.err # "Ok"
        THEN [err |-> r.err, verified |-> FALSE, out |-> Zeroed(r.out)]
        ELSE [err |-> "Ok", verified |-> FALSE, out |-> r.out]
      : r \in {Session_encrypt(session_key, killed1, killed2, plaintext, aad, out)}})
    : aad \in {AadNew(file_id, chunk_index, cloud_id, AAD_VERSION_V1)}})

\* decrypt_chunk: [err, verified, out]
decrypt_chunk(session_key, killed1, killed2, file_id, cloud_id, chunk_index, ciphertext, out) ==
  IF decrypt_chunk_validate(Len(ciphertext), Len(out)) # "Ok"
    THEN [err |-> decrypt_chunk_validate(Len(ciphertext), Len(out)),
          verified |-> FALSE, out |-> Zeroed(out)]
  ELSE Only({
    IF ~aad.some
      THEN [err |-> "InvalidInput", verified |-> FALSE, out |-> Zeroed(out)]
    ELSE Only({
      IF r.err # "Ok"
        THEN [err |-> r.err, verified |-> FALSE, out |-> Zeroed(r.out)]
        ELSE [err |-> "Ok", verified |-> r.verified, out |-> r.out]
      : r \in {Session_decrypt_verify(session_key, killed1, killed2, ciphertext,
                                      aad, out)}})
    : aad \in {AadNew(file_id, chunk_index, cloud_id, AAD_VERSION_V1)}})

\* the closure Core::encrypt_chunk / Core::decrypt_chunk hands to with_session
\* f = <<which, file_id, cloud_id, chunk, input, out>>
SessionClosure(f, session_key, killed) ==
  IF f[1] = "encrypt_chunk"
    THEN encrypt_chunk(session_key, killed, killed, f[2], f[3], f[4], f[5], f[6])
    ELSE decrypt_chunk(session_key, killed, killed, f[2], f[3], f[4], f[5], f[6])

(* ───────────── keystore (KeyStore) ───────────── *)

\* KeyStore::unlock as it would be if a poisoned mutex were reported but the
\* fuse left alone
KeyStore_unlock_quiet(auth) ==
  IF GLOBAL_KILLED
    THEN [err |-> <<"Killed">>, state |-> state, killed |-> GLOBAL_KILLED]
  ELSE IF poisoned
    THEN [err |-> <<"Poisoned">>, state |-> state, killed |-> GLOBAL_KILLED]
  ELSE CASE state.tag = "Locked" ->
              [err |-> <<"Ok">>, state |-> StActive(auth), killed |-> GLOBAL_KILLED]
         [] state.tag = "Active" ->
              [err |-> <<"Locked">>, state |-> state, killed |-> GLOBAL_KILLED]
         [] state.tag = "Killed" ->
              [err |-> <<"Killed">>, state |-> state, killed |-> GLOBAL_KILLED]

\* KeyStore::unlock: [err, state, killed]
KeyStore_unlock(auth) ==
  IF GLOBAL_KILLED
    THEN [err |-> <<"Killed">>, state |-> state, killed |-> GLOBAL_KILLED]
  ELSE IF poisoned
    THEN [err |-> <<"Poisoned">>, state |-> state, killed |-> TRUE]
  ELSE CASE state.tag = "Locked" ->
              [err |-> <<"Ok">>, state |-> StActive(auth), killed |-> GLOBAL_KILLED]
         [] state.tag = "Active" ->
              [err |-> <<"Locked">>, state |-> state, killed |-> GLOBAL_KILLED]
         [] state.tag = "Killed" ->
              [err |-> <<"Killed">>, state |-> state, killed |-> GLOBAL_KILLED]

\* KeyStore::unlock from the mutex on: what a caller does that passed the fuse
\* check on entry and now takes the lock
KeyStore_unlock_locked(auth) ==
  IF poisoned
    THEN [err |-> <<"Poisoned">>, state |-> state, killed |-> TRUE]
  ELSE CASE state.tag = "Locked" ->
              [err |-> <<"Ok">>, state |-> StActive(auth), killed |-> GLOBAL_KILLED]
         [] state.tag = "Active" ->
              [err |-> <<"Locked">>, state |-> state, killed |-> GLOBAL_KILLED]
         [] state.tag = "Killed" ->
              [err |-> <<"Killed">>, state |-> state, killed |-> GLOBAL_KILLED]

\* KeyStore::with_session as it would be without the fuse check on entry
KeyStore_with_session_unfused(f) ==
  IF poisoned
    THEN [err |-> <<"Poisoned">>, invoked |-> FALSE, verified |-> FALSE,
          out |-> f[6], killed |-> TRUE]
  ELSE CASE state.tag = "Active" ->
              Only({[err |-> IF r.err = "Ok" THEN <<"Ok">> ELSE <<"Session", r.err>>,
                     invoked |-> TRUE, verified |-> r.verified, out |-> r.out,
                     killed |-> GLOBAL_KILLED]
                    : r \in {SessionClosure(f, state.key, FALSE)}})
         [] state.tag = "Locked" ->
              [err |-> <<"Locked">>, invoked |-> FALSE, verified |-> FALSE,
               out |-> f[6], killed |-> GLOBAL_KILLED]
         [] state.tag = "Killed" ->
              [err |-> <<"Killed">>, invoked |-> FALSE, verified |-> FALSE,
               out |-> f[6], killed |-> GLOBAL_KILLED]

\* KeyStore::with_session as it would be if a Locked keystore still ran the
\* closure on whatever the key slot holds
KeyStore_with_session_any(f) ==
  IF GLOBAL_KILLED
    THEN [err |-> <<"Killed">>, invoked |-> FALSE, verified |-> FALSE,
          out |-> f[6], killed |-> GLOBAL_KILLED]
  ELSE IF poisoned
    THEN [err |-> <<"Poisoned">>, invoked |-> FALSE, verified |-> FALSE,
          out |-> f[6], killed |-> TRUE]
  ELSE CASE state.tag \in {"Active", "Locked"} ->
              Only({[err |-> IF r.err = "Ok" THEN <<"Ok">> ELSE <<"Session", r.err>>,
                     invoked |-> TRUE, verified |-> r.verified, out |-> r.out,
                     killed |-> GLOBAL_KILLED]
                    : r \in {SessionClosure(f, state.key, GLOBAL_KILLED)}})
         [] state.tag = "Killed" ->
              [err |-> <<"Killed">>, invoked |-> FALSE, verified |-> FALSE,
               out |-> f[6], killed |-> GLOBAL_KILLED]

\* KeyStore::with_session: [err, invoked, verified, out, killed]
KeyStore_with_session(f) ==
  IF GLOBAL_KILLED
    THEN [err |-> <<"Killed">>, invoked |-> FALSE, verified |-> FALSE,
          out |-> f[6], killed |-> GLOBAL_KILLED]
  ELSE IF poisoned
    THEN [err |-> <<"Poisoned">>, invoked |-> FALSE, verified |-> FALSE,
          out |-> f[6], killed |-> TRUE]
  ELSE CASE state.tag = "Active" ->
              Only({[err |-> IF r.err = "Ok" THEN <<"Ok">> ELSE <<"Session", r.err>>,
                     invoked |-> TRUE, verified |-> r.verified, out |-> r.out,
                     killed |-> GLOBAL_KILLED]
                    : r \in {SessionClosure(f, state.key, GLOBAL_KILLED)}})
         [] state.tag = "Locked" ->
              [err |-> <<"Locked">>, invoked |-> FALSE, verified |-> FALSE,
               out |-> f[6], killed |-> GLOBAL_KILLED]
         [] state.tag = "Killed" ->
              [err |-> <<"Killed">>, invoked |-> FALSE, verified |-> FALSE,
               out |-> f[6], killed |-> GLOBAL_KILLED]

\* KeyStore::lock as it would be if the poisoned branch cleared the fuse
KeyStore_lock_clearing ==
  IF poisoned THEN [state |-> state, killed |-> FALSE]
  ELSE IF state.tag = "Active" THEN [state |-> StLocked, killed |-> FALSE]
  ELSE [state |-> state, killed |-> FALSE]

\* KeyStore::lock as it would be if the Active session were kept
KeyStore_lock_keeping ==
  IF poisoned THEN [state |-> state, killed |-> TRUE]
  ELSE [state |-> state, killed |-> GLOBAL_KILLED]

\* KeyStore::lock: [state, killed]
KeyStore_lock ==
  IF poisoned THEN [state |-> state, killed |-> TRUE]
  ELSE IF state.tag = "Active" THEN [state |-> StLocked, killed |-> GLOBAL_KILLED]
  ELSE [state |-> state, killed |-> GLOBAL_KILLED]

(* ───────────── bridge::api (Core) ───────────── *)

\* map_session_error as it would be if OutputTooSmall were not folded into
\* InvalidInput
map_session_error_split(e) ==
  CASE e = "Killed" -> "Killed"
    [] e = "Locked" -> "Locked"
    [] e = "InvalidInput" -> "InvalidInput"
    [] e = "OutputTooSmall" -> "CryptoFailure"
    [] e = "CryptoFailure" -> "CryptoFailure"

\* map_session_error
map_session_error(e) ==
  CASE e = "Killed" -> "Killed"
    [] e = "Locked" -> "Locked"
    [] e = "InvalidInput" -> "InvalidInput"
    [] e = "OutputTooSmall" -> "InvalidInput"
    [] e = "CryptoFailure" -> "CryptoFailure"

\* map_keystore_error; Ok(..) passes through map_err
map_keystore_error(err) ==
  CASE err[1] = "Ok" -> "Ok"
    [] err[1] = "Locked" -> "Locked"
    [] err[1] = "Killed" -> "Killed"
    [] err[1] = "Poisoned" -> "Killed"
    [] err[1] = "AlreadyUnlocked" -> "Denied"
    [] err[1] = "Session" -> map_session_error(err[2])

\* Core::require_alive
Core_require_alive == ~GLOBAL_KILLED

\* Core::unlock_with_phrase as it would be if a failed recovery set the fuse
Core_unlock_with_phrase_escalating(phrase) ==
  IF ~Core_require_alive
    THEN [err |-> "Killed", state |-> state, killed |-> GLOBAL_KILLED]
  ELSE Only({
    IF auth.err # "Ok"
      THEN [err |-> "IntegrityFailure", state |-> state, killed |-> TRUE]
      ELSE Only({[err |-> map_keystore_error(u.err), state |-> u.state,
                  killed |-> u.killed]
                 : u \in {KeyStore_unlock(auth.session)}})
    : auth \in {recover_from_phrase(phrase)}})

\* Core::unlock_with_phrase: [err, state, killed]
Core_unlock_with_phrase(phrase) ==
  IF ~Core_require_alive
    THEN [err |-> "Killed", state |-> state, killed |-> GLOBAL_KILLED]
  ELSE Only({
    IF auth.err # "Ok"
      THEN [err |-> "IntegrityFailure", state |-> state, killed |-> GLOBAL_KILLED]
      ELSE Only({[err |-> map_keystore_error(u.err), state |-> u.state,
                  killed |-> u.killed]
                 : u \in {KeyStore_unlock(auth.session)}})
    : auth \in {recover_from_phrase(phrase)}})

\* Core::is_killed
Core_is_killed == GLOBAL_KILLED

\* Core::encrypt_chunk / Core::decrypt_chunk: [err, invoked, verified, out, killed]
Core_chunk(f) ==
  IF ~Core_require_alive
    THEN [err |-> "Killed", invoked |-> FALSE, verified |-> FALSE,
          out |-> f[6], killed |-> GLOBAL_KILLED]
    ELSE Only({[err |-> map_keystore_error(w.err), invoked |-> w.invoked,
                verified |-> w.verified, out |-> w.out, killed |-> w.killed]
               : w \in {KeyStore_with_session(f)}})

(* ───────────── bridge::wasm (C ABI) ───────────── *)

\* rcx_init: [code, core_id, out_handle]; rnd is what OsRng yields (0 falls back to 1)
rcx_init(out_handle_null, rnd) ==
  LET id == IF rnd = 0 THEN 1 ELSE rnd
  IN  IF out_handle_null \/ GLOBAL_KILLED
        THEN [code |-> BridgeError.Killed, core_id |-> CORE_ID, out_handle |-> 0]
        ELSE [code |-> BridgeError.Ok,
              core_id |-> IF CORE_ID = 0 THEN id ELSE CORE_ID,
              out_handle |-> id]

\* rcx_unlock_with_phrase as it would be without the handle comparison
rcx_unlock_with_phrase_any_handle(handle, ptr_null, phrase) ==
  IF GLOBAL_KILLED \/ ptr_null \/ Len(phrase) = 0
    THEN [code |-> BridgeError.InvalidInput, state |-> state,
          killed |-> GLOBAL_KILLED]
  ELSE Only({[code |-> BridgeError[u.err], state |-> u.state, killed |-> u.killed]
             : u \in {Core_unlock_with_phrase(phrase)}})

\* rcx_unlock_with_phrase: [code, state, killed]
rcx_unlock_with_phrase(handle, ptr_null, phrase) ==
  IF GLOBAL_KILLED \/ ptr_null \/ Len(phrase) = 0
    THEN [code |-> BridgeError.InvalidInput, state |-> state,
          killed |-> GLOBAL_KILLED]
  ELSE IF CORE_ID = 0 \/ CORE_ID # handle
    THEN [code |-> BridgeError.Denied, state |-> state, killed |-> GLOBAL_KILLED]
  ELSE Only({[code |-> BridgeError[u.err], state |-> u.state, killed |-> u.killed]
             : u \in {Core_unlock_with_phrase(phrase)}})

(* ───────────── bridge::jni ───────────── *)

\* unlockWithPhrase as it would be if a caught panic were reported with the
\* discriminant after Denied
jni_unlockWithPhrase_raw(outcome, phrase) ==
  IF outcome = "panic"
    THEN [code |-> BridgeError.Denied + 1, state |-> state, killed |-> GLOBAL_KILLED]
  ELSE IF outcome = "convert_err"
    THEN [code |-> BridgeError.InvalidInput, state |-> state,
          killed |-> GLOBAL_KILLED]
  ELSE Only({[code |-> BridgeError[u.err], state |-> u.state, killed |-> u.killed]
             : u \in {Core_unlock_with_phrase(phrase)}})

\* Java_com_rcxcloud_core_SecureCore_unlockWithPhrase: [code, state, killed];
\* outcome says whether the closure ran, convert_byte_array failed, or the
\* closure panicked before it reached the core
jni_unlockWithPhrase(outcome, phrase) ==
  IF outcome = "panic"
    THEN [code |-> BridgeError.CryptoFailure, state |-> state,
          killed |-> GLOBAL_KILLED]
  ELSE IF outcome = "convert_err"
    THEN [code |-> BridgeError.InvalidInput, state |-> state,
          killed |-> GLOBAL_KILLED]
  ELSE Only({[code |-> BridgeError[u.err], state |-> u.state, killed |-> u.killed]
             : u \in {Core_unlock_with_phrase(phrase)}})

\* Java_com_rcxcloud_core_SecureCore_isKilled
jni_isKilled(outcome) ==
  IF outcome = "panic" THEN 1 ELSE IF Core_is_killed THEN 1 ELSE 0

(* ───────────── inputs ───────────── *)

\* the empty phrase, a one-byte phrase, and the 32-byte phrase of tests/security_proof.rs
Phrases == {<<>>, <<7>>, [i \in 1..32 |-> 1]}
AuthKeys == {<<"authority", 1>>, <<"authority", 2>>}
Handles == {1, 2}
\* replay tokens: the small ones, and one that takes two bytes
Tokens == (0..MaxToken) \cup {258}
\* replay tokens of the kill commands the core as a whole receives
KillTokens == {0, 1}
Materials == {<<1>>}
SampleFile == 101010
\* <<file_id, cloud_id, chunk>> of the chunks that get encrypted
SampleIds == {<<SampleFile, 1, 0>>, <<7, 2, 1>>}
TamperBits == {0, 7}

\* the identifiers a ciphertext was made with, and each one of them changed
NearIds(w) ==
  {<<w.file_id, w.cloud_id, w.chunk>>, <<w.file_id + 1, w.cloud_id, w.chunk>>,
   <<w.file_id, w.cloud_id + 1, w.chunk>>, <<w.file_id, w.cloud_id, w.chunk + 1>>}

RECURSIVE SeqsUpTo(_, _)
\* all sequences over S of length at most n
SeqsUpTo(S, n) ==
  IF n = 0 THEN {<<>>}
  ELSE LET shorter == SeqsUpTo(S, n - 1)
       IN  shorter \cup {Append(q, x) : q \in shorter, x \in S}

Plaintexts == SeqsUpTo({B(0), B(84)}, MaxLen)

\* one bit of one byte changed
FlipBit(n, bit) ==
  IF (n \div (2 ^ bit)) % 2 = 1 THEN n - 2 ^ bit ELSE n + 2 ^ bit

Flip(c, bit) ==
  IF c[1] = "b" THEN B(FlipBit(c[2], bit)) ELSE <<"flip", c, bit>>

\* what a caller presents to decrypt_chunk: the kept ciphertext, the kept
\* ciphertext with bit `bit` of byte i changed, or n zero bytes
DecryptInput(kind, i, bit, n) ==
  CASE kind = "wire" -> wire.ct
    [] kind = "flip" -> [wire.ct EXCEPT ![i] = Flip(@, bit)]
    [] kind = "zeros" -> [j \in 1..n |-> B(0)]

(* ───────────── kill::protocol, kill::generate, kill::strategy ───────────── *)

\* strategy.rs: KILL_VERSION_V1, and PLAINTEXT_LEN = version | device_id | replay
KILL_VERSION_V1 == 1
strategy_PLAINTEXT_LEN == 1 + 32 + 8
\* generate.rs: PLAINTEXT_LEN = device_id | replay
generate_PLAINTEXT_LEN == 32 + 8

\* b"rcxcloud-kill-v1"
KILL_AAD_LABEL ==
  <<114, 99, 120, 99, 108, 111, 117, 100, 45, 107, 105, 108, 108, 45, 118, 49>>

\* a buffer of literal bytes
Bytes(q) == [i \in 1..Len(q) |-> B(q[i])]

\* build_kill_aad: label (16) || device fingerprint, big-endian (8)
build_kill_aad(reg) == Bytes(KILL_AAD_LABEL) \o reg.fingerprint

\* ReplayToken::from_bytes: [some, v]
ReplayToken_from_bytes(b) ==
  IF Len(b) # 8 THEN [some |-> FALSE, v |-> 0]
  ELSE [some |-> TRUE, v |-> FromBeBytes([i \in 1..8 |-> b[i][2]])]

\* generate_kill_blob: nonce || ciphertext || tag; nonce is what OsRng yields
generate_kill_blob(root_key, reg, target_device_id, replay, nonce) ==
  Only({nonce \o seal(k.key, nonce,
                      target_device_id \o Bytes(ToBeBytes(replay, 8)),
                      <<>>,
                      Zeroed(Stale(generate_PLAINTEXT_LEN + TAG_LEN))).out
        : k \in {derive_key(root_key, "Recovery", reg.fingerprint)}})

\* decrypt_blob: [some, pt]
decrypt_blob(key, blob, aad) ==
  IF Len(blob) < NONCE_LEN + TAG_LEN THEN [some |-> FALSE, pt |-> <<>>]
  ELSE Only({IF ~o.ok THEN [some |-> FALSE, pt |-> <<>>]
             ELSE IF Len(o.out) # strategy_PLAINTEXT_LEN
               THEN [some |-> FALSE, pt |-> <<>>]
             ELSE IF o.out[1] # B(KILL_VERSION_V1)
               THEN [some |-> FALSE, pt |-> <<>>]
             ELSE [some |-> TRUE, pt |-> o.out]
             : o \in {open(key, SubSeq(blob, 1, NONCE_LEN),
                           SubSeq(blob, NONCE_LEN + 1, Len(blob)), aad,
                           Zeroed(Stale(Len(blob) - NONCE_LEN - TAG_LEN)))}})

\* parse_payload: [some, device_id, replay]
parse_payload(buf) ==
  Only({[some |-> r.some, device_id |-> SubSeq(buf, 2, 33), replay |-> r.v]
        : r \in {ReplayToken_from_bytes(SubSeq(buf, 34, 41))}})

NoDecision == [some |-> FALSE, replay |-> 0]

\* verify_kill_blob as it would be without the device binding test
verify_kill_blob_unbound(reg, root_key, blob) ==
  Only({IF ~k.ok THEN NoDecision
        ELSE Only({IF ~d.some THEN NoDecision
                   ELSE Only({IF ~parsed.some THEN NoDecision
                              ELSE [some |-> TRUE, replay |-> parsed.replay]
                              : parsed \in {parse_payload(d.pt)}})
                   : d \in {decrypt_blob(k.key, blob, build_kill_aad(reg))}})
        : k \in {derive_key(root_key, "Recovery", reg.fingerprint)}})

\* verify_kill_blob: Option<KillDecision> as [some, replay]
verify_kill_blob(reg, root_key, blob) ==
  Only({IF ~k.ok THEN NoDecision
        ELSE Only({IF ~d.some THEN NoDecision
                   ELSE Only({IF ~parsed.some THEN NoDecision
                              ELSE IF parsed.device_id # reg.device_id
                                THEN NoDecision
                              ELSE [some |-> TRUE, replay |-> parsed.replay]
                              : parsed \in {parse_payload(d.pt)}})
                   : d \in {decrypt_blob(k.key, blob, build_kill_aad(reg))}})
        : k \in {derive_key(root_key, "Recovery", reg.fingerprint)}})

\* the registry load_or_init creates from device_material
RegistryOf(material) ==
  [some |-> TRUE, device_id |-> hash_sha256(material),
   fingerprint |-> from_material(material)]

RootKeys == {<<"root", 1>>, <<"root", 2>>}
KillMaterials == {<<1>>, <<2>>}
KillNonces == {[i \in 1..NONCE_LEN |-> B(0)], [i \in 1..NONCE_LEN |-> B(9)]}
\* replay values carried by kill blobs: one byte, two bytes
KillReplays == {1, 258}

\* nonce || seal(kill key of (root_key, reg), nonce, pt, kill AAD of reg)
SealedKillBlob(root_key, reg, pt, nonce) ==
  Only({nonce \o seal(k.key, nonce, pt, build_kill_aad(reg),
                      Zeroed(Stale(Len(pt) + TAG_LEN))).out
        : k \in {derive_key(root_key, "Recovery", reg.fingerprint)}})

\* the payload strategy.rs parses: version | device_id | replay
KillPayload(version, device_id, replay) ==
  <<B(version)>> \o device_id \o Bytes(ToBeBytes(replay, 8))

BlobKinds ==
  {"v1", "v2", "no_version", "other_device", "other_registry", "empty_payload",
   "flip_tag", "flip_nonce", "zeros27", "zeros28", "generated"}

\* the blobs a device with registry reg may be handed
KillBlobInput(kind, root_key, reg, replay, nonce) ==
  CASE kind = "v1" ->
         SealedKillBlob(root_key, reg, KillPayload(1, reg.device_id, replay), nonce)
    [] kind = "v2" ->
         SealedKillBlob(root_key, reg, KillPayload(2, reg.device_id, replay), nonce)
    [] kind = "no_version" ->
         SealedKillBlob(root_key, reg,
                        reg.device_id \o Bytes(ToBeBytes(replay, 8)), nonce)
    [] kind = "other_device" ->
         SealedKillBlob(root_key, reg,
                        KillPayload(1, hash_sha256(<<3>>), replay), nonce)
    [] kind = "other_registry" ->
         SealedKillBlob(root_key, RegistryOf(<<3>>),
                        KillPayload(1, reg.device_id, replay), nonce)
    [] kind = "empty_payload" -> SealedKillBlob(root_key, reg, <<>>, nonce)
    [] kind = "flip_tag" ->
         Only({[b EXCEPT ![Len(b)] = Flip(@, 0)]
               : b \in {SealedKillBlob(root_key, reg,
                                       KillPayload(1, reg.device_id, replay),
                                       nonce)}})
    [] kind = "flip_nonce" ->
         Only({[b EXCEPT ![1] = Flip(@, 0)]
               : b \in {SealedKillBlob(root_key, reg,
                                       KillPayload(1, reg.device_id, replay),
                                       nonce)}})
    [] kind = "zeros27" -> [j \in 1..(NONCE_LEN + TAG_LEN - 1) |-> B(0)]
    [] kind = "zeros28" -> [j \in 1..(NONCE_LEN + TAG_LEN) |-> B(0)]
    [] kind = "generated" ->
         generate_kill_blob(root_key, reg, reg.device_id, replay, nonce)

(* ───────────── initial state ───────────── *)

Init ==
  /\ GLOBAL_KILLED = FALSE
  /\ state = StLocked
  /\ poisoned = FALSE
  /\ CORE_ID = 0
  /\ LOG_ROOT = FALSE
  /\ fs = [n \in FileNames |-> <<>>]
  /\ registry = NoRegistry
  /\ kpc = "idle"
  /\ ktrace = <<>>
  /\ committed = <<>>
  /\ last = NoCall
  /\ wire = NoWire
  /\ heap = NoHeap
  /\ pend = NoPend
  /\ master = NoMaster

Running == kpc # "aborted"

\* the keystore mutex is not held by a with_session closure in progress
MutexFree == pend.op \notin {"Session::encrypt", "Session::decrypt_verify"}

(* ───────────── startup ───────────── *)

\* init_log_root(path)
InitLogRoot ==
  /\ Running
  /\ LOG_ROOT' = TRUE
  /\ last' = Call("init_log_root", <<"Ok">>, 0, FALSE, <<>>, FALSE, <<>>)
  /\ UNCHANGED <<master, heap, pend, GLOBAL_KILLED, state, poisoned, CORE_ID, fs, registry, kpc,
                 ktrace, committed, wire>>

\* DeviceRegistry::load_or_init(material)
RegistryLoadOrInit(material) ==
  \E r \in {load_or_init(material)} :
      /\ Running
      /\ fs' = [fs EXCEPT !["device_identity.bin"] = r.file]
      /\ registry' = IF r.err = "Ok" THEN r.reg ELSE registry
      /\ last' = Call("load_or_init", <<r.err>>, 0, FALSE, <<>>, FALSE, <<material>>)
      /\ UNCHANGED <<master, heap, pend, GLOBAL_KILLED, state, poisoned, CORE_ID, LOG_ROOT, kpc,
                     ktrace, committed, wire>>

\* the stored identity record is found with a length other than the one written:
\* cut to n bytes, or padded to n bytes with zeros (storage outside the program)
IdentityDamaged(n) ==
  LET file == fs["device_identity.bin"]
  IN  /\ Running
      /\ file # <<>>
      /\ n # Len(file)
      /\ fs' = [fs EXCEPT !["device_identity.bin"] =
                  IF n <= Len(file) THEN SubSeq(file, 1, n)
                  ELSE file \o [i \in 1..(n - Len(file)) |-> B(0)]]
      /\ UNCHANGED <<master, heap, pend, GLOBAL_KILLED, state, poisoned, CORE_ID, LOG_ROOT, registry,
                     kpc, ktrace, committed, last, wire>>

(* ───────────── guarded cells ───────────── *)

GuardInitWith(outcome, fill, written) ==
  /\ Running
  /\ heap.made < MaxCells
  /\ outcome = "init_panics" \/ written = CELL_LEN
  /\ heap' = GuardedBox_init_with(outcome, fill, written)
  /\ last' = Call("GuardedBox::init_with", <<outcome>>, 0, FALSE, <<>>, FALSE,
                  <<fill, written, heap.made + 1>>)
  /\ UNCHANGED <<master, GLOBAL_KILLED, state, poisoned, CORE_ID, LOG_ROOT, fs, registry,
                 kpc, ktrace, committed, wire, pend>>

GuardDrop(id) ==
  /\ Running
  /\ id \in heap.boxes
  /\ heap' = GuardedBox_drop(id)
  /\ last' = Call("GuardedBox::drop", <<"Ok">>, 0, FALSE, <<>>, FALSE, <<id>>)
  /\ UNCHANGED <<master, GLOBAL_KILLED, state, poisoned, CORE_ID, LOG_ROOT, fs, registry,
                 kpc, ktrace, committed, wire, pend>>

(* ───────────── C ABI calls ───────────── *)

RcxInit(out_handle_null, rnd) ==
  \E r \in {rcx_init(out_handle_null, rnd)} :
      /\ Running
      /\ CORE_ID' = r.core_id
      /\ last' = Call("rcx_init", <<"abi">>, r.code, FALSE, <<>>, FALSE,
                      <<out_handle_null, r.out_handle>>)
      /\ UNCHANGED <<master, heap, pend, GLOBAL_KILLED, state, poisoned, LOG_ROOT, fs, registry,
                     kpc, ktrace, committed, wire>>

RcxUnlockWithPhrase(handle, ptr_null, phrase) ==
  \E r \in {rcx_unlock_with_phrase(handle, ptr_null, phrase)} :
      /\ Running
      /\ state' = r.state
      /\ GLOBAL_KILLED' = r.killed
      /\ last' = Call("rcx_unlock_with_phrase", <<"abi">>, r.code, FALSE, <<>>,
                      FALSE, <<handle, ptr_null, phrase>>)
      /\ UNCHANGED <<master, heap, pend, poisoned, CORE_ID, LOG_ROOT, fs, registry, kpc, ktrace,
                     committed, wire>>

(* ───────────── Core API calls ───────────── *)

CoreUnlockWithPhrase(phrase) ==
  \E r \in {Core_unlock_with_phrase(phrase)} :
      /\ Running
      /\ state' = r.state
      /\ GLOBAL_KILLED' = r.killed
      /\ last' = Call("Core::unlock_with_phrase", <<r.err>>, BridgeError[r.err],
                      FALSE, <<>>, FALSE, <<phrase>>)
      /\ UNCHANGED <<master, heap, pend, poisoned, CORE_ID, LOG_ROOT, fs, registry, kpc, ktrace,
                     committed, wire>>

CoreLock ==
  \E r \in {KeyStore_lock} :
      /\ Running
      /\ MutexFree
      /\ state' = r.state
      /\ GLOBAL_KILLED' = r.killed
      /\ last' = Call("Core::lock", <<"Ok">>, 0, FALSE, <<>>, FALSE, <<>>)
      /\ UNCHANGED <<master, heap, pend, poisoned, CORE_ID, LOG_ROOT, fs, registry, kpc, ktrace,
                     committed, wire>>

CoreIsKilled ==
  /\ Running
  /\ last' = Call("Core::is_killed", <<"Ok">>, IF Core_is_killed THEN 1 ELSE 0,
                  FALSE, <<>>, FALSE, <<>>)
  /\ UNCHANGED <<master, heap, pend, GLOBAL_KILLED, state, poisoned, CORE_ID, LOG_ROOT, fs,
                 registry, kpc, ktrace, committed, wire>>

CoreEncryptChunk(file_id, cloud_id, chunk, plaintext, out_len) ==
  \E r \in {Core_chunk(<<"encrypt_chunk", file_id, cloud_id, chunk, plaintext,
                        Stale(out_len)>>)} :
      /\ Running
      /\ out_len >= 0
      /\ GLOBAL_KILLED' = r.killed
      /\ last' = Call("Core::encrypt_chunk", <<r.err>>, BridgeError[r.err],
                      r.invoked, r.out, FALSE,
                      <<file_id, cloud_id, chunk, plaintext>>)
      /\ wire' = IF r.err = "Ok"
                   THEN [some |-> TRUE, key |-> state.key, file_id |-> file_id,
                         cloud_id |-> cloud_id, chunk |-> chunk,
                         pt |-> plaintext, ct |-> r.out]
                   ELSE wire
      /\ UNCHANGED <<master, heap, pend, state, poisoned, CORE_ID, LOG_ROOT, fs, registry, kpc,
                     ktrace, committed>>

CoreDecryptChunk(file_id, cloud_id, chunk, kind, ciphertext, out_len) ==
  \E r \in {Core_chunk(<<"decrypt_chunk", file_id, cloud_id, chunk, ciphertext,
                        Stale(out_len)>>)} :
      /\ Running
      /\ out_len >= 0
      /\ GLOBAL_KILLED' = r.killed
      /\ last' = Call("Core::decrypt_chunk", <<r.err>>, BridgeError[r.err],
                      r.invoked, r.out, r.verified,
                      <<file_id, cloud_id, chunk, kind, Len(ciphertext)>>)
      /\ UNCHANGED <<master, heap, pend, state, poisoned, CORE_ID, LOG_ROOT, fs, registry, kpc,
                     ktrace, committed, wire>>

(* ───────────── JNI calls ───────────── *)

JniUnlockWithPhrase(outcome, phrase) ==
  \E r \in {jni_unlockWithPhrase(outcome, phrase)} :
      /\ Running
      /\ state' = r.state
      /\ GLOBAL_KILLED' = r.killed
      /\ last' = Call("jni::unlockWithPhrase", <<outcome>>, r.code, FALSE, <<>>,
                      FALSE, <<phrase>>)
      /\ UNCHANGED <<master, heap, pend, poisoned, CORE_ID, LOG_ROOT, fs, registry, kpc, ktrace,
                     committed, wire>>

JniIsKilled(outcome) ==
  /\ Running
  /\ last' = Call("jni::isKilled", <<outcome>>, jni_isKilled(outcome), FALSE,
                  <<>>, FALSE, <<>>)
  /\ UNCHANGED <<master, heap, pend, GLOBAL_KILLED, state, poisoned, CORE_ID, LOG_ROOT, fs,
                 registry, kpc, ktrace, committed, wire>>

(* ───────────── KeyStore calls ───────────── *)

KeyStoreUnlock(auth) ==
  \E r \in {KeyStore_unlock(auth)} :
      /\ Running
      /\ MutexFree
      /\ state' = r.state
      /\ GLOBAL_KILLED' = r.killed
      /\ last' = Call("KeyStore::unlock", r.err, 0, FALSE, <<>>, FALSE, <<auth>>)
      /\ UNCHANGED <<master, heap, pend, poisoned, CORE_ID, LOG_ROOT, fs, registry, kpc, ktrace,
                     committed, wire>>

KeyStoreWithSession(which, file_id, cloud_id, chunk, input, out_len) ==
  \E r \in {KeyStore_with_session(<<which, file_id, cloud_id, chunk, input,
                                   Stale(out_len)>>)} :
      /\ Running
      /\ out_len >= 0
      /\ GLOBAL_KILLED' = r.killed
      /\ last' = Call("KeyStore::with_session", r.err, 0, r.invoked, r.out,
                      r.verified, <<file_id, cloud_id, chunk, which, Len(input)>>)
      /\ UNCHANGED <<master, heap, pend, state, poisoned, CORE_ID, LOG_ROOT, fs, registry, kpc,
                     ktrace, committed, wire>>

\* the closure of with_session panics while the guard is held
\* (GuardedKey32::zeroed panics when the memory lock fails): the Mutex is poisoned
SessionPanic ==
  /\ Running
  /\ ~GLOBAL_KILLED /\ ~poisoned /\ state.tag = "Active"
  /\ poisoned' = TRUE
  /\ last' = Call("KeyStore::with_session", <<"panic">>, 0, TRUE, <<>>, FALSE, <<>>)
  /\ UNCHANGED <<master, heap, pend, GLOBAL_KILLED, state, CORE_ID, LOG_ROOT, fs, registry, kpc,
                 ktrace, committed, wire>>

\* KeyStore::apply_remote_kill(kill_blob); blob_ok is what verify_kill_blob says
ApplyRemoteKill(blob_ok) ==
  /\ Running
  /\ MutexFree
  /\ GLOBAL_KILLED' = (blob_ok \/ GLOBAL_KILLED)
  /\ state' = IF blob_ok /\ ~poisoned THEN StKilled ELSE state
  /\ last' = Call("KeyStore::apply_remote_kill", <<"Ok">>, 0, FALSE, <<>>, FALSE,
                  <<blob_ok>>)
  /\ UNCHANGED <<master, heap, pend, poisoned, CORE_ID, LOG_ROOT, fs, registry, kpc, ktrace,
                 committed, wire>>

(* ───────────── calls of a second thread, step by step ───────────── *)

\* KeyStore::unlock loads the fuse, finds it clear, and has yet to take the mutex
UnlockBegin(auth) ==
  /\ Running
  /\ pend = NoPend
  /\ ~GLOBAL_KILLED
  /\ pend' = [op |-> "KeyStore::unlock", pc |-> "fuse_read", auth |-> auth]
  /\ UNCHANGED <<master, GLOBAL_KILLED, state, poisoned, CORE_ID, LOG_ROOT, fs, registry,
                 kpc, ktrace, committed, last, wire, heap>>

\* that unlock takes the mutex and matches on the state
UnlockFinish ==
  \E r \in {KeyStore_unlock_locked(pend.auth)} :
      /\ Running
      /\ pend.op = "KeyStore::unlock"
      /\ state' = r.state
      /\ GLOBAL_KILLED' = r.killed
      /\ last' = Call("KeyStore::unlock", r.err, 0, FALSE, <<>>, FALSE,
                      <<pend.auth, pend.pc>>)
      /\ pend' = NoPend
      /\ UNCHANGED <<master, poisoned, CORE_ID, LOG_ROOT, fs, registry, kpc, ktrace,
                     committed, wire, heap>>

\* the plaintext, AAD and buffers of the session calls made step by step
RaceAad == AadNew(SampleFile, 0, 1, AAD_VERSION_V1)

RaceInput(which, key) ==
  IF which = "Session::encrypt" THEN <<B(84)>>
  ELSE Session_encrypt(key, FALSE, FALSE, <<B(84)>>, RaceAad, Stale(1 + TAG_LEN)).out

\* with_session passed its fuse check, took the mutex, found the state Active
\* and calls the closure, which is about to call the session
SessionCallEnter(which) ==
  /\ Running
  /\ pend = NoPend
  /\ ~GLOBAL_KILLED /\ ~poisoned /\ state.tag = "Active"
  /\ pend' = [op |-> which, pc |-> "closure", auth |-> <<"none">>]
  /\ UNCHANGED <<master, GLOBAL_KILLED, state, poisoned, CORE_ID, LOG_ROOT, fs, registry,
                 kpc, ktrace, committed, last, wire, heap>>

\* the session call goes on to its next load of the fuse: require_alive
\* ("closure"), the load after derive_key ("checked"), or none ("rechecked");
\* a load that finds the fuse set, and the end of the function, return
SessionCallStep ==
  /\ Running
  /\ ~MutexFree
  /\ IF pend.pc # "rechecked" /\ ~GLOBAL_KILLED
       THEN /\ pend' = [pend EXCEPT
                          !.pc = IF pend.pc = "closure" THEN "checked" ELSE "rechecked"]
            /\ last' = last
       ELSE /\ pend' = NoPend
            /\ \E r \in {IF pend.op = "Session::encrypt"
                           THEN [verified |-> FALSE] @@
                                Session_encrypt(state.key, pend.pc = "closure",
                                                pend.pc = "checked",
                                                RaceInput(pend.op, state.key),
                                                RaceAad, Stale(1 + TAG_LEN))
                           ELSE Session_decrypt_verify(state.key, pend.pc = "closure",
                                                       pend.pc = "checked",
                                                       RaceInput(pend.op, state.key),
                                                       RaceAad, Stale(1))} :
                 last' = Call(pend.op, <<r.err>>, 0, TRUE, r.out, r.verified,
                              <<pend.pc, GLOBAL_KILLED>>)
  /\ UNCHANGED <<master, GLOBAL_KILLED, state, poisoned, CORE_ID, LOG_ROOT, fs, registry,
                 kpc, ktrace, committed, wire, heap>>

(* ───────────── device::registry, is_killed ───────────── *)

RegistryIsKilled(io) ==
  /\ Running
  /\ registry.some
  /\ last' = Call("DeviceRegistry::is_killed", <<"Ok">>,
                  IF registry_is_killed(io) THEN 1 ELSE 0, FALSE, <<>>, FALSE,
                  <<io>>)
  /\ UNCHANGED <<master, heap, pend, GLOBAL_KILLED, state, poisoned, CORE_ID, LOG_ROOT, fs, registry,
                 kpc, ktrace, committed, wire>>

(* ───────────── policy::enforcement ───────────── *)

PolicyAllow(set, op, io) ==
  /\ Running
  /\ registry.some
  /\ last' = Call("PolicyEnforcer::allow", <<"Ok">>,
                  IF PolicyEnforcer_allow(CAPS[set], op, io) THEN 1 ELSE 0,
                  FALSE, <<>>, FALSE, <<set, op, io>>)
  /\ UNCHANGED <<master, heap, pend, GLOBAL_KILLED, state, poisoned, CORE_ID, LOG_ROOT, fs, registry,
                 kpc, ktrace, committed, wire>>

(* ───────────── kill::replay, called on its own ───────────── *)

CheckAndCommit(token) ==
  \E r \in {check_and_commit(token)} :
      /\ Running
      /\ fs' = [fs EXCEPT !["device_kill.log"] = r.file]
      /\ committed' = IF r.ret THEN Append(committed, token) ELSE committed
      /\ last' = Call("check_and_commit", <<"Ok">>, IF r.ret THEN 1 ELSE 0,
                      FALSE, <<>>, FALSE, <<token>>)
      /\ UNCHANGED <<master, heap, pend, GLOBAL_KILLED, state, poisoned, CORE_ID, LOG_ROOT, registry,
                     kpc, ktrace, wire>>

\* an append to the log that check_and_commit uses stopped after n of its bytes
\* (the process died in write_all): the file ends in a partial record
LogTorn(n) ==
  LET file == fs["device_kill.log"]
  IN  /\ Running
      /\ LOG_ROOT
      /\ Len(file) % 8 = 0
      /\ n \in 1..7
      /\ fs' = [fs EXCEPT !["device_kill.log"] = file \o [i \in 1..n |-> 0]]
      /\ UNCHANGED <<master, GLOBAL_KILLED, state, poisoned, CORE_ID, LOG_ROOT, registry,
                     kpc, ktrace, committed, last, wire, heap, pend>>

(* ───────────── kill::replay, two callers at once ───────────── *)

\* the check_and_commit calls in progress, each <<token, position, last>>
ReplayCalls == IF pend.op = "check_and_commit" THEN pend.auth ELSE <<>>

\* pend once the calls in progress are q
ReplayPend(q) ==
  IF q = <<>> THEN NoPend ELSE [op |-> "check_and_commit", pc |-> "steps", auth |-> q]

\* a caller enters check_and_commit and opens the log: an open that fails
\* returns false at once
ReplayEnter(token) ==
  /\ Running
  /\ pend.op \in {"none", "check_and_commit"}
  /\ Len(ReplayCalls) < 2
  /\ IF open_append
       THEN /\ pend' = ReplayPend(Append(ReplayCalls, <<token, "opened", 0>>))
            /\ last' = last
       ELSE /\ pend' = pend
            /\ last' = Call("check_and_commit", <<"Ok">>, 0, FALSE, <<>>, FALSE,
                            <<token, 0>>)
  /\ UNCHANGED <<master, GLOBAL_KILLED, state, poisoned, CORE_ID, LOG_ROOT, fs, registry,
                 kpc, ktrace, committed, wire, heap>>

\* call i takes its next step: read_last_u64, the comparison, or append_u64
ReplayStep(i) ==
  /\ Running
  /\ i \in 1..Len(ReplayCalls)
  /\ \E c \in {ReplayCalls[i]}, file \in {fs["device_kill.log"]} :
     \E rest \in {SubSeq(ReplayCalls, 1, i - 1)
                    \o SubSeq(ReplayCalls, i + 1, Len(ReplayCalls))} :
     \E r \in {read_last_u64(file)}, a \in {append_u64(file, c[1])} :
       CASE c[2] = "opened" ->
              /\ pend' = IF r.ok
                           THEN ReplayPend([ReplayCalls EXCEPT
                                  ![i] = <<c[1], "read", IF r.some THEN r.v ELSE 0>>])
                           ELSE ReplayPend(rest)
              /\ last' = IF r.ok THEN last
                         ELSE Call("check_and_commit", <<"Ok">>, 0, FALSE, <<>>,
                                   FALSE, <<c[1], 0>>)
              /\ UNCHANGED <<fs, committed>>
         [] c[2] = "read" ->
              /\ pend' = IF c[1] <= c[3]
                           THEN ReplayPend(rest)
                           ELSE ReplayPend([ReplayCalls EXCEPT
                                  ![i] = <<c[1], "compared", c[3]>>])
              /\ last' = IF c[1] <= c[3]
                           THEN Call("check_and_commit", <<"Ok">>, 0, FALSE, <<>>,
                                     FALSE, <<c[1], c[3]>>)
                           ELSE last
              /\ UNCHANGED <<fs, committed>>
         [] c[2] = "compared" ->
              /\ pend' = ReplayPend(rest)
              /\ fs' = [fs EXCEPT !["device_kill.log"] = a.file]
              /\ committed' = IF a.ok THEN Append(committed, c[1]) ELSE committed
              /\ last' = Call("check_and_commit", <<"Ok">>, IF a.ok THEN 1 ELSE 0,
                              FALSE, <<>>, FALSE, <<c[1], c[3]>>)
  /\ UNCHANGED <<master, GLOBAL_KILLED, state, poisoned, CORE_ID, LOG_ROOT, registry,
                 kpc, ktrace, wire, heap>>

(* ───────────── kill::executor ───────────── *)

\* execute_kill, step 1: check_and_commit(replay); false returns ReplayDetected
KillStart(token) ==
  \E r \in {check_and_commit(token)} :
      /\ Running
      /\ kpc = "idle"
      /\ registry.some
      /\ fs' = [fs EXCEPT !["device_kill.log"] = r.file]
      /\ committed' = IF r.ret THEN Append(committed, token) ELSE committed
      /\ kpc' = IF r.ret THEN "fuse" ELSE "idle"
      /\ ktrace' = IF r.ret THEN <<"commit">> ELSE ktrace
      /\ last' = IF r.ret THEN last
                 ELSE Call("execute_kill", <<"ReplayDetected">>, 0, FALSE, <<>>,
                           FALSE, <<token>>)
      /\ UNCHANGED <<master, heap, pend, GLOBAL_KILLED, state, poisoned, CORE_ID, LOG_ROOT, registry,
                     wire>>

\* step 2: GLOBAL_KILLED.store(true, SeqCst)
KillFuse ==
  /\ kpc = "fuse"
  /\ GLOBAL_KILLED' = TRUE
  /\ kpc' = "wipe"
  /\ ktrace' = Append(ktrace, "fuse")
  /\ UNCHANGED <<master, heap, pend, state, poisoned, CORE_ID, LOG_ROOT, fs, registry, committed,
                 last, wire>>

\* step 3: keystore.lock()
KillWipe ==
  \E r \in {KeyStore_lock} :
      /\ kpc = "wipe"
      /\ MutexFree
      /\ state' = r.state
      /\ GLOBAL_KILLED' = r.killed
      /\ kpc' = "mark"
      /\ ktrace' = Append(ktrace, "wipe")
      /\ UNCHANGED <<master, heap, pend, poisoned, CORE_ID, LOG_ROOT, fs, registry, committed, last,
                     wire>>

\* step 4: let _ = registry.mark_this_device_killed()
KillMark ==
  \E r \in {mark_this_device_killed} :
      /\ kpc = "mark"
      /\ fs' = [fs EXCEPT !["device_kill.log"] = r.file]
      /\ kpc' = "halt"
      /\ ktrace' = Append(ktrace, "mark")
      /\ UNCHANGED <<master, heap, pend, GLOBAL_KILLED, state, poisoned, CORE_ID, LOG_ROOT, registry,
                     committed, last, wire>>

\* step 5 as it would be if execute_kill returned Ok(()) instead of halting
KillAbort_returning ==
  /\ kpc = "halt"
  /\ kpc' = "idle"
  /\ ktrace' = Append(ktrace, "abort")
  /\ last' = Call("execute_kill", <<"Ok">>, 0, FALSE, <<>>, FALSE, <<>>)
  /\ UNCHANGED <<master, heap, pend, GLOBAL_KILLED, state, poisoned, CORE_ID, LOG_ROOT, fs, registry,
                 committed, wire>>

\* step 5: loop { process::abort() }
KillAbort ==
  /\ kpc = "halt"
  /\ kpc' = "aborted"
  /\ ktrace' = Append(ktrace, "abort")
  /\ UNCHANGED <<master, heap, pend, GLOBAL_KILLED, state, poisoned, CORE_ID, LOG_ROOT, fs, registry,
                 committed, last, wire>>

(* ───────────── kill blobs ───────────── *)

\* the admin device makes a blob for this device; it is kept in last.out
GenerateKillBlob(root_key, replay, nonce) ==
  /\ Running
  /\ registry.some
  /\ last' = Call("generate_kill_blob", <<"Ok">>, replay, FALSE,
                  generate_kill_blob(root_key, registry, registry.device_id,
                                     replay, nonce),
                  FALSE, <<root_key, "generated", replay>>)
  /\ UNCHANGED <<master, heap, pend, GLOBAL_KILLED, state, poisoned, CORE_ID, LOG_ROOT, fs, registry,
                 kpc, ktrace, committed, wire>>

\* verify_kill_blob on the blob generate_kill_blob just made
VerifyGenerated(root_key) ==
  \E v \in {verify_kill_blob(registry, root_key, last.out)} :
      /\ Running
      /\ registry.some
      /\ last.op = "generate_kill_blob"
      /\ last' = Call("verify_kill_blob", <<IF v.some THEN "Some" ELSE "None">>,
                      v.replay, FALSE, <<>>, FALSE,
                      <<root_key, "generated", last.args[3], last.args[1]>>)
      /\ UNCHANGED <<master, heap, pend, GLOBAL_KILLED, state, poisoned, CORE_ID, LOG_ROOT, fs,
                     registry, kpc, ktrace, committed, wire>>

\* verify_kill_blob on a blob sealed under sealer_root, or a malformed one
VerifyKillBlob(root_key, kind, sealer_root, replay, nonce) ==
  \E v \in {verify_kill_blob(registry, root_key,
                             KillBlobInput(kind, sealer_root, registry, replay,
                                           nonce))} :
      /\ Running
      /\ registry.some
      /\ last' = Call("verify_kill_blob", <<IF v.some THEN "Some" ELSE "None">>,
                      v.replay, FALSE, <<>>, FALSE,
                      <<root_key, kind, replay, sealer_root>>)
      /\ UNCHANGED <<master, heap, pend, GLOBAL_KILLED, state, poisoned, CORE_ID, LOG_ROOT, fs,
                     registry, kpc, ktrace, committed, wire>>

(* ───────────── chunk calls by size ───────────── *)

\* input lengths at the tag length and at the chunk limit
SizeLens ==
  {0, TAG_LEN - 1, TAG_LEN, TAG_LEN + 1, MAX_CHUNK_SIZE - 1, MAX_CHUNK_SIZE,
   MAX_CHUNK_SIZE + 1, MAX_CHUNK_SIZE + TAG_LEN - 1, MAX_CHUNK_SIZE + TAG_LEN,
   MAX_CHUNK_SIZE + TAG_LEN + 1}
\* out.len() - input.len()
SizeDeltas == {0 - TAG_LEN - 1, 0 - TAG_LEN, 0 - TAG_LEN + 1, 0, TAG_LEN - 1,
               TAG_LEN, TAG_LEN + 1}

\* the validation of a chunk call in an Active session, on buffers given by
\* their lengths; a refused call has zeroed out
ChunkValidate(which, in_len, out_len) ==
  \E v \in {IF which = "encrypt_chunk"
              THEN encrypt_chunk_validate(in_len, out_len)
              ELSE decrypt_chunk_validate(in_len, out_len)} :
      /\ Running
      /\ out_len >= 0
      /\ state.tag = "Active" /\ ~GLOBAL_KILLED /\ ~poisoned
      /\ last' = Call(which, <<v>>,
                      IF v = "Ok" THEN 0 ELSE BridgeError[map_session_error(v)],
                      TRUE, <<>>, FALSE, <<which, in_len, out_len>>)
      /\ UNCHANGED <<master, heap, pend, GLOBAL_KILLED, state, poisoned, CORE_ID, LOG_ROOT, fs,
                     registry, kpc, ktrace, committed, wire>>

(* ───────────── keystore::master, calls from several threads ───────────── *)

\* thread t enters a MasterKeyStore call; fused is the fuse as it is then
MasterCall(t, op, key) ==
  /\ master.calls[t].op = "none"
  /\ master' = [master EXCEPT !.calls[t] =
                  [op |-> op, pc |-> "start", key |-> key,
                   fused |-> GLOBAL_KILLED, seen |-> FALSE]]
  /\ UNCHANGED <<GLOBAL_KILLED, state, poisoned, CORE_ID, LOG_ROOT, fs, registry,
                 kpc, ktrace, committed, last, wire, heap, pend>>

\* thread t takes the next step of its call; a thread at the mutex waits until
\* no other thread holds it
MasterStep(t, panics) ==
  /\ master.calls[t].op # "none"
  /\ master.calls[t].pc = "acquire" => master.holder = 0
  /\ panics => master.calls[t].pc = "closure"
  /\ \E r \in {MasterKeyStore_step(master, GLOBAL_KILLED, t, panics)} :
       /\ GLOBAL_KILLED' = r.killed
       /\ master' = [state |-> r.state, holder |-> r.holder,
                     poisoned |-> r.poisoned, applied |-> r.applied,
                     calls |-> [master.calls EXCEPT
                                  ![t] = IF r.done THEN NoMasterCall ELSE r.call]]
       /\ last' = IF r.done
                    THEN Call("MasterKeyStore::" \o r.call.op, <<r.err>>, 0,
                              r.invoked, <<>>, FALSE,
                              <<r.call.fused, r.call.seen>>)
                    ELSE last
  /\ UNCHANGED <<state, poisoned, CORE_ID, LOG_ROOT, fs, registry, kpc, ktrace,
                 committed, wire, heap, pend>>

(* ───────────── process lifetime ───────────── *)

\* the process that halted in execute_kill is started again on the same log
\* root: every static and every heap object is new (GLOBAL_KILLED false,
\* LOG_ROOT unset, keystore Locked, no registry loaded); the files, the
\* ciphertext already sent out, and the record of what was committed remain
Restart ==
  /\ kpc = "aborted"
  /\ GLOBAL_KILLED' = FALSE
  /\ state' = StLocked
  /\ poisoned' = FALSE
  /\ CORE_ID' = 0
  /\ LOG_ROOT' = FALSE
  /\ registry' = NoRegistry
  /\ kpc' = "idle"
  /\ ktrace' = <<>>
  /\ last' = NoCall
  /\ heap' = NoHeap
  /\ pend' = NoPend
  /\ master' = NoMaster
  /\ UNCHANGED <<fs, committed, wire>>

(* ───────────── specifications ───────────── *)

\* the whole core: startup, bridge, keystore, kill executor; chunk calls on one sample
Next ==
  \/ InitLogRoot
  \/ \E m \in Materials : RegistryLoadOrInit(m)
  \/ \E rnd \in {0, 2} : RcxInit(FALSE, rnd)
  \/ \E h \in Handles, p \in Phrases : RcxUnlockWithPhrase(h, FALSE, p)
  \/ \E p \in Phrases : CoreUnlockWithPhrase(p)
  \/ CoreLock
  \/ CoreIsKilled
  \/ \E o \in {"ran", "convert_err", "panic"}, p \in Phrases :
       JniUnlockWithPhrase(o, p)
  \/ \E o \in {"ran", "panic"} : JniIsKilled(o)
  \/ CoreEncryptChunk(SampleFile, 1, 0, <<>>, TAG_LEN)
  \/ CoreDecryptChunk(SampleFile, 1, 0, "wire", DecryptInput("wire", 1, 0, 0), 0)
  \/ \E a \in AuthKeys : KeyStoreUnlock(a)
  \/ KeyStoreWithSession("encrypt_chunk", SampleFile, 1, 0, <<>>, TAG_LEN)
  \/ SessionPanic
  \/ ApplyRemoteKill(TRUE)
  \/ \E t \in KillTokens : KillStart(t)
  \/ KillFuse
  \/ KillWipe
  \/ KillMark
  \/ KillAbort

Spec == Init /\ [][Next]_vars

\* the chunk pipeline on every drawn input: unlock, lock, encrypt, decrypt, kill.
\* Decryption presents the kept ciphertext under the identifiers it was made
\* with or with one of them changed, a one-bit change of it under its own
\* identifiers, or a buffer of zero bytes.
NextChunk ==
  \/ \E a \in AuthKeys : KeyStoreUnlock(a)
  \/ CoreLock
  \/ ApplyRemoteKill(TRUE)
  \/ \E id \in SampleIds, pt \in Plaintexts, d \in {0, 1} :
       CoreEncryptChunk(id[1], id[2], id[3], pt, Len(pt) + TAG_LEN - d)
  \/ \E id \in NearIds(wire), d \in {0, 1} :
       CoreDecryptChunk(id[1], id[2], id[3], "wire", DecryptInput("wire", 1, 0, 0),
                        Len(wire.pt) + d)
  \/ \E i \in 1..Len(wire.ct), bit \in TamperBits :
       CoreDecryptChunk(wire.file_id, wire.cloud_id, wire.chunk, "flip",
                        DecryptInput("flip", i, bit, 0), Len(wire.pt))
  \/ \E n \in {TAG_LEN - 1, TAG_LEN + 1} :
       CoreDecryptChunk(SampleFile, 1, 0, "zeros", DecryptInput("zeros", 1, 0, n), 1)

SpecChunk == Init /\ [][NextChunk]_vars

\* the replay log under repeated check_and_commit calls, and the executor
NextReplay ==
  \/ InitLogRoot
  \/ \E m \in Materials : RegistryLoadOrInit(m)
  \/ \E t \in Tokens : CheckAndCommit(t)
  \/ \E io \in {"ok", "open_err", "metadata_err"} : RegistryIsKilled(io)
  \/ \E set \in DOMAIN CAPS, op \in DOMAIN OperationCapability,
        io \in {"ok", "open_err"} : PolicyAllow(set, op, io)
  \/ \E t \in Tokens : KillStart(t)
  \/ KillFuse
  \/ KillWipe
  \/ KillMark
  \/ KillAbort

SpecReplay == Init /\ [][NextReplay]_vars

\* the core across process lifetimes: a kill, the halt, and a restart on the
\* same log root
NextRestart ==
  \/ InitLogRoot
  \/ \E m \in Materials : RegistryLoadOrInit(m)
  \/ \E p \in Phrases : CoreUnlockWithPhrase(p)
  \/ \E a \in AuthKeys : KeyStoreUnlock(a)
  \/ CoreLock
  \/ CoreIsKilled
  \/ CoreEncryptChunk(SampleFile, 1, 0, <<>>, TAG_LEN)
  \/ CoreDecryptChunk(SampleFile, 1, 0, "wire", DecryptInput("wire", 1, 0, 0), 0)
  \/ \E t \in KillTokens : KillStart(t)
  \/ KillFuse \/ KillWipe \/ KillMark \/ KillAbort
  \/ Restart

SpecRestart == Init /\ [][NextRestart]_vars

\* kill blobs: the admin generator and the device's verifier
NextKillBlob ==
  \/ InitLogRoot
  \/ \E m \in KillMaterials : RegistryLoadOrInit(m)
  \/ \E r \in RootKeys, t \in KillReplays, n \in KillNonces :
        GenerateKillBlob(r, t, n)
  \/ \E r \in RootKeys : VerifyGenerated(r)
  \/ \E r \in RootKeys, k \in BlobKinds \ {"generated"}, sr \in RootKeys,
        t \in KillReplays, n \in KillNonces : VerifyKillBlob(r, k, sr, t, n)

SpecKillBlob == Init /\ [][NextKillBlob]_vars

\* the device identity record: created, loaded again with the same or another
\* material, and found damaged
NextIdentity ==
  \/ InitLogRoot
  \/ \E m \in KillMaterials : RegistryLoadOrInit(m)
  \/ \E n \in {39, 40, 41} : IdentityDamaged(n)
  \/ ApplyRemoteKill(TRUE)

SpecIdentity == Init /\ [][NextIdentity]_vars

\* guarded cells made, dropped, and lost to a failing lock or initializer
NextGuard ==
  \/ \E o \in {"alloc_fails", "lock_fails", "init_panics", "ok"}, fill \in {0, 170},
        n \in {0, 16, CELL_LEN} : GuardInitWith(o, fill, n)
  \/ \E id \in 1..MaxCells : GuardDrop(id)

SpecGuard == Init /\ [][NextGuard]_vars

\* two threads: one makes whole calls and runs the kill executor, the other is
\* part-way through an unlock or a session call.  A whole call that needs the
\* keystore mutex waits while a closure of the other thread holds it.
NextRace ==
  \/ InitLogRoot
  \/ \E m \in Materials : RegistryLoadOrInit(m)
  \/ \E a \in AuthKeys : KeyStoreUnlock(a)
  \/ CoreLock
  \/ \E a \in AuthKeys : UnlockBegin(a)
  \/ UnlockFinish
  \/ \E which \in {"Session::encrypt", "Session::decrypt_verify"} :
       SessionCallEnter(which)
  \/ SessionCallStep
  \/ ApplyRemoteKill(TRUE)
  \/ \E t \in KillTokens : KillStart(t)
  \/ KillFuse
  \/ KillWipe
  \/ KillMark
  \/ KillAbort

SpecRace == Init /\ [][NextRace]_vars

\* the log of check_and_commit: tokens committed, and a tail left by a write
\* that did not finish
NextLog ==
  \/ InitLogRoot
  \/ \E t \in Tokens : CheckAndCommit(t)
  \/ \E n \in {1, 7} : LogTorn(n)
  \/ ApplyRemoteKill(TRUE)

SpecLog == Init /\ [][NextLog]_vars

\* two callers of check_and_commit at once, no lock between them
NextCommit ==
  \/ InitLogRoot
  \/ \E t \in {1, 2} : ReplayEnter(t)
  \/ \E i \in {1, 2} : ReplayStep(i)
  \/ ApplyRemoteKill(TRUE)

SpecCommit == Init /\ [][NextCommit]_vars

\* one MasterKeyStore called from several threads at once
NextMaster ==
  \/ \E t \in MasterThreads, op \in {"unlock", "lock", "apply_verified_kill", "with_key"},
        key \in {<<"authority", 1>>} : MasterCall(t, op, key)
  \/ \E t \in MasterThreads, panics \in BOOLEAN : MasterStep(t, panics)

SpecMaster == Init /\ [][NextMaster]_vars

\* chunk calls on buffers at the size limit
NextSize ==
  \/ \E a \in AuthKeys : KeyStoreUnlock(a)
  \/ CoreLock
  \/ \E which \in {"encrypt_chunk", "decrypt_chunk"}, n \in SizeLens,
        d \in SizeDeltas : ChunkValidate(which, n, n + d)

SpecSize == Init /\ [][NextSize]_vars

(* ───────────── properties ───────────── *)

Range(q) == {q[i] : i \in 1..Len(q)}

IsPrefix(p, q) == Len(p) <= Len(q) /\ SubSeq(q, 1, Len(p)) = p

\* the executor has stored the fuse and has not halted the process yet
KillSucceeding == kpc \in {"wipe", "mark", "halt"}

\* chunk calls a caller can make in the current state:
\* <<which, file_id, cloud_id, chunk, input, out>>
ChunkCalls ==
  {<<which, id[1], id[2], id[3], input, Stale(n)>> :
     which \in {"encrypt_chunk", "decrypt_chunk"}, id \in SampleIds,
     input \in {<<>>, <<B(84)>>, wire.ct}, n \in {0, 1, TAG_LEN, TAG_LEN + 1}}

\* C1: once execute_kill has stored the fuse, every bridge entry point except
\* is_killed returns Killed (2) for every argument, at the Core API and at the
\* C ABI, and is_killed returns 1.
C1_KilledAtEveryEntryPoint ==
  KillSucceeding =>
    /\ \A n \in BOOLEAN, rnd \in {0, 2} :
         rcx_init(n, rnd).code = BridgeError.Killed
    /\ \A h \in Handles, n \in BOOLEAN, p \in Phrases :
         rcx_unlock_with_phrase(h, n, p).code = BridgeError.Killed
    /\ \A p \in Phrases :
         BridgeError[Core_unlock_with_phrase(p).err] = BridgeError.Killed
    /\ \A f \in ChunkCalls : BridgeError[Core_chunk(f).err] = BridgeError.Killed
    /\ Core_is_killed

\* C1, where it fails: after the fuse store, rcx_unlock_with_phrase was called
\* with the handle rcx_init gave, a non-null pointer and a non-empty phrase, and
\* returned InvalidInput (3)
C1_UnlockReturnsInvalidInput ==
  /\ KillSucceeding
  /\ last.op = "rcx_unlock_with_phrase"
  /\ last.args[1] = CORE_ID /\ ~last.args[2] /\ Len(last.args[3]) > 0
  /\ last.code = BridgeError.InvalidInput

\* C2: the kill fuse is monotone: no step of any operation takes GLOBAL_KILLED
\* (and so is_killed()) from true back to false.
C2_FuseMonotone == [][GLOBAL_KILLED => GLOBAL_KILLED']_vars

\* C2's case: the fuse was set by a poisoning handler, calls went on after it
\* (the last one saw is_killed() = 1), and the fuse is still set
C2_FuseStaysSet ==
  /\ GLOBAL_KILLED /\ poisoned /\ state.tag = "Active"
  /\ last.op = "Core::is_killed" /\ last.code = 1

\* C3: when the replay check of execute_kill fails, it returns ReplayDetected
\* and changes nothing: fuse, keystore state and session, kill log; and the
\* executor's fuse store only ever follows a commit that succeeded.
C3_ReplayFailureChangesNothing ==
  /\ [][\A t \in Tokens :
          (KillStart(t) /\ ~check_and_commit(t).ret) =>
            /\ last'.op = "execute_kill" /\ last'.err = <<"ReplayDetected">>
            /\ UNCHANGED <<GLOBAL_KILLED, state, poisoned, fs, registry, kpc,
                           ktrace, committed>>]_vars
  /\ [][KillFuse =>
          /\ ktrace = <<"commit">>
          /\ committed # <<>>
          /\ read_last_u64(fs["device_kill.log"]).v = committed[Len(committed)]]_vars

\* C3's case: a kill command was refused as a replay while a session was
\* active, and fuse, session and log are as they were
C3_ReplayRefused ==
  /\ last.op = "execute_kill" /\ last.err = <<"ReplayDetected">>
  /\ state.tag = "Active" /\ ~GLOBAL_KILLED /\ kpc = "idle"
  /\ fs["device_kill.log"] = <<>>

KillOrder == <<"commit", "fuse", "wipe", "mark", "abort">>

\* C4: the success path of execute_kill runs replay commit, fuse store,
\* keystore wipe, marker attempt, halt, in that order; the fuse is set before
\* the wipe starts; execute_kill never returns Ok; nothing runs after the halt.
C4_KillOrder ==
  /\ [](IsPrefix(ktrace, KillOrder))
  /\ [](kpc \in {"wipe", "mark", "halt", "aborted"} => GLOBAL_KILLED)
  /\ [](last.op = "execute_kill" => last.err = <<"ReplayDetected">>)
  /\ [][kpc # "aborted"]_vars

\* C4's case: the executor ran to the halt
C4_Halted == kpc = "aborted" /\ ktrace = KillOrder /\ GLOBAL_KILLED

RECURSIVE LogOf(_)
\* the bytes of a log holding the tokens of q as 8-byte big-endian records
LogOf(q) == IF q = <<>> THEN <<>> ELSE ToBeBytes(Head(q), 8) \o LogOf(Tail(q))

StrictlyIncreasing(q) == \A i \in 1..(Len(q) - 1) : q[i] < q[i + 1]

\* the greatest token committed so far; none on a fresh log
MaxCommitted == CHOOSE m \in Range(committed) : \A x \in Range(committed) : x <= m

\* C5 as stated: on a log that opens, every token above all committed ones (any
\* token on a fresh log) commits and is appended, and every token at or below
\* the greatest committed one is rejected without a write.
C5_AsStated ==
  open_append =>
    \A t \in Tokens :
      LET r == check_and_commit(t)
          file == fs["device_kill.log"]
      IN  /\ (committed = <<>> \/ t > MaxCommitted) =>
               r.ret /\ r.file = file \o ToBeBytes(t, 8)
          /\ (committed # <<>> /\ t <= MaxCommitted) => ~r.ret /\ r.file = file

\* C5, amended: on a log that opens (log root set, fuse clear), every strictly
\* increasing sequence of tokens greater than 0 commits in order, each token
\* appended as one 8-byte record; a token at or below the greatest committed
\* one, and the token 0 on a fresh log, is rejected without a write.
C5_NonZeroIncreasingCommit ==
  /\ StrictlyIncreasing(committed)
  /\ fs["device_kill.log"] = LogOf(committed)
  /\ open_append =>
       \A t \in Tokens :
         LET r == check_and_commit(t)
             file == fs["device_kill.log"]
             floor == IF committed = <<>> THEN 0 ELSE MaxCommitted
         IN  /\ t > floor => r.ret /\ r.file = file \o ToBeBytes(t, 8)
             /\ t <= floor => ~r.ret /\ r.file = file

\* C5's case: three tokens were committed in increasing order, the last of them
\* taking two bytes, and a later call with a token below the greatest was refused
C5_CommittedThenRefused ==
  /\ Len(committed) >= 3 /\ committed[Len(committed)] > 255
  /\ last.op = "check_and_commit" /\ last.code = 0
  /\ last.args[1] > 0 /\ last.args[1] < committed[Len(committed)]
  /\ open_append

\* C6 as stated: KeyStore::unlock succeeds only from Locked; on an Active
\* keystore it fails with AlreadyUnlocked, which the bridge maps to Denied (6),
\* and leaves the installed session as it is.
C6_ActiveUnlockDenied ==
  /\ \A a \in AuthKeys : KeyStore_unlock(a).err = <<"Ok">> => state.tag = "Locked"
  /\ (state.tag = "Active" /\ ~GLOBAL_KILLED /\ ~poisoned) =>
       \A a \in AuthKeys :
         LET u == KeyStore_unlock(a)
         IN  /\ u.err = <<"AlreadyUnlocked">>
             /\ BridgeError[map_keystore_error(u.err)] = BridgeError.Denied
             /\ u.state = state

\* C6, where it fails: unlock with another authority on an Active keystore
\* returned KeyStoreError::Locked; the session stayed the installed one
C6_ActiveUnlockSaysLocked ==
  /\ state.tag = "Active" /\ ~GLOBAL_KILLED /\ ~poisoned
  /\ last.op = "KeyStore::unlock" /\ last.err = <<"Locked">>
  /\ last.args[1] # state.key

\* C7 as stated: on a fresh Core (Locked, fuse clear) unlock_with_phrase with a
\* non-empty phrase returns Ok and leaves the keystore Active: the binding check
\* accepts the pair derive_two_keys made.
C7_FreshUnlockSucceeds ==
  (state = StLocked /\ ~GLOBAL_KILLED /\ ~poisoned) =>
    \A p \in Phrases \ {<<>>} :
      LET k == derive_two_keys(p, RECOVERY_SALT, DefaultParams)
          u == Core_unlock_with_phrase(p)
      IN  /\ verify_key_integrity(k.root, k.session)
          /\ u.err = "Ok"
          /\ u.state.tag = "Active"

\* C7, where it fails: unlock_with_phrase with a non-empty phrase on a fresh
\* Core returned IntegrityFailure and the keystore stayed Locked
C7_FreshUnlockRefused ==
  /\ state = StLocked /\ ~GLOBAL_KILLED /\ ~poisoned
  /\ last.op = "Core::unlock_with_phrase" /\ Len(last.args[1]) > 0
  /\ last.err = <<"IntegrityFailure">>

\* a session is installed, the fuse is clear and the lock is sound
Usable == state.tag = "Active" /\ ~GLOBAL_KILLED /\ ~poisoned

\* C8: round trip.  In an Active, un-killed keystore, encrypt_chunk of any
\* plaintext into |pt|+16 bytes succeeds, and decrypt_chunk of that output with
\* the same file_id, cloud_id and chunk into |pt| bytes gives verified = true and
\* the plaintext; the same holds of a ciphertext kept from an earlier call of
\* the session.
C8_RoundTrip ==
  /\ Usable =>
       \A id \in SampleIds, pt \in Plaintexts :
         LET e == Core_chunk(<<"encrypt_chunk", id[1], id[2], id[3], pt,
                               Stale(Len(pt) + TAG_LEN)>>)
             d == Core_chunk(<<"decrypt_chunk", id[1], id[2], id[3], e.out,
                               Stale(Len(pt))>>)
         IN  /\ e.err = "Ok" /\ Len(e.out) = Len(pt) + TAG_LEN
             /\ d.err = "Ok" /\ d.verified /\ d.out = pt
  /\ (Usable /\ wire.some /\ wire.key = state.key) =>
       LET d == Core_chunk(<<"decrypt_chunk", wire.file_id, wire.cloud_id,
                             wire.chunk, wire.ct, Stale(Len(wire.pt))>>)
       IN  d.err = "Ok" /\ d.verified /\ d.out = wire.pt

\* C8's case: a non-empty plaintext was encrypted and the kept ciphertext was
\* decrypted back to it
C8_RoundTripDone ==
  /\ wire.some /\ Len(wire.pt) >= 1
  /\ last.op = "Core::decrypt_chunk" /\ last.args[4] = "wire"
  /\ last.err = <<"Ok">> /\ last.verified /\ last.out = wire.pt

\* the cells a caller can see in an output buffer that holds no plaintext
NoPlaintext(out) == \A i \in 1..Len(out) : out[i] \in {B(0), B(170)}

\* C9: a ciphertext made by encrypt_chunk, presented to decrypt_chunk with
\* another file_id, chunk or cloud_id, or with any one bit of ciphertext or tag
\* changed, gives Ok with verified = false and an all-zero output; an output
\* holds plaintext only when verified = true.
C9_AuthFailureIsAValue ==
  /\ (Usable /\ wire.some /\ wire.key = state.key) =>
       /\ \A id \in NearIds(wire) \ {<<wire.file_id, wire.cloud_id, wire.chunk>>} :
            LET d == Core_chunk(<<"decrypt_chunk", id[1], id[2], id[3], wire.ct,
                                  Stale(Len(wire.pt))>>)
            IN  d.err = "Ok" /\ ~d.verified /\ AllZero(d.out)
                  /\ Len(d.out) = Len(wire.pt)
       /\ \A i \in 1..Len(wire.ct), bit \in 0..7 :
            LET d == Core_chunk(<<"decrypt_chunk", wire.file_id, wire.cloud_id,
                                  wire.chunk, DecryptInput("flip", i, bit, 0),
                                  Stale(Len(wire.pt))>>)
            IN  d.err = "Ok" /\ ~d.verified /\ AllZero(d.out)
                  /\ Len(d.out) = Len(wire.pt)
  /\ (last.op = "Core::decrypt_chunk" /\ ~last.verified) => NoPlaintext(last.out)

\* C9's case: a kept ciphertext of a non-empty plaintext was presented with one
\* bit changed and came back Ok, unverified, all zeros
C9_TamperedComesBackZero ==
  /\ wire.some /\ Len(wire.pt) >= 1
  /\ last.op = "Core::decrypt_chunk" /\ last.args[4] = "flip"
  /\ last.err = <<"Ok">> /\ ~last.verified
  /\ Len(last.out) = Len(wire.pt) /\ AllZero(last.out)

\* C10: with the fuse set, unlock, with_session, encrypt_chunk and decrypt_chunk
\* return Killed, do not invoke the session closure and leave the output buffer
\* without ciphertext or plaintext, in every keystore state.
C10_KilledBeforeAnyWork ==
  GLOBAL_KILLED =>
    /\ \A a \in AuthKeys :
         LET u == KeyStore_unlock(a) IN u.err = <<"Killed">> /\ u.state = state
    /\ \A p \in Phrases :
         LET u == Core_unlock_with_phrase(p) IN u.err = "Killed" /\ u.state = state
    /\ \A f \in ChunkCalls :
         LET w == KeyStore_with_session(f)
             c == Core_chunk(f)
             x == SessionClosure(f, state.key, GLOBAL_KILLED)
         IN  /\ w.err = <<"Killed">> /\ ~w.invoked /\ ~w.verified /\ w.out = f[6]
             /\ c.err = "Killed" /\ ~c.invoked /\ ~c.verified /\ c.out = f[6]
             /\ x.err # "Ok" /\ ~x.verified /\ AllZero(x.out)

\* C10's case: the fuse is set while a session is still installed, and a
\* with_session call made then came back Killed without reaching the closure
C10_KilledWhileActive ==
  /\ GLOBAL_KILLED /\ state.tag = "Active"
  /\ last.op = "KeyStore::with_session" /\ last.err = <<"Killed">>
  /\ ~last.invoked /\ last.out = Stale(TAG_LEN)

\* the keystore calls that take the mutex
KeystoreCallOps == {"KeyStore::unlock", "KeyStore::with_session", "Core::lock",
                    "Core::encrypt_chunk", "Core::decrypt_chunk"}

\* C11: with the keystore mutex poisoned, the next unlock, with_session or lock
\* sets the fuse; unlock and with_session return Poisoned, which the bridge maps
\* to Killed (2); once the fuse is set they return Killed.
C11_PoisonEscalates ==
  /\ [](poisoned =>
          /\ KeyStore_lock.killed
          /\ \A a \in AuthKeys :
               LET u == KeyStore_unlock(a)
               IN  /\ u.killed /\ u.state = state
                   /\ u.err = IF GLOBAL_KILLED THEN <<"Killed">> ELSE <<"Poisoned">>
                   /\ BridgeError[map_keystore_error(u.err)] = BridgeError.Killed
          /\ \A f \in ChunkCalls :
               LET w == KeyStore_with_session(f)
               IN  /\ w.killed /\ ~w.invoked /\ w.out = f[6]
                   /\ w.err = IF GLOBAL_KILLED THEN <<"Killed">> ELSE <<"Poisoned">>
                   /\ BridgeError[Core_chunk(f).err] = BridgeError.Killed)
  /\ [][(poisoned /\ last' # last /\ last'.op \in KeystoreCallOps)
          => GLOBAL_KILLED']_vars

\* C11's case: a with_session call found the mutex poisoned, returned Poisoned,
\* and the fuse is now set although no kill command ran
C11_PoisonedCallSetFuse ==
  /\ poisoned /\ GLOBAL_KILLED /\ kpc = "idle" /\ state.tag = "Active"
  /\ last.op = "KeyStore::with_session" /\ last.err = <<"Poisoned">>

\* a step that is a successful KeyStore::unlock
SuccessfulUnlockStep ==
  /\ last'.op = "KeyStore::unlock" /\ last'.err = <<"Ok">>
  /\ state.tag = "Locked" /\ state'.tag = "Active"

\* C12 as stated: after lock, with_session returns Locked until the next
\* successful unlock (whatever else happens in between).
C12_AsStated ==
  [][(/\ last.op = "Core::lock" /\ state = StLocked
      /\ ~GLOBAL_KILLED /\ ~poisoned
      /\ ~SuccessfulUnlockStep)
     => \A f \in ChunkCalls :
          (KeyStore_with_session(f).err = <<"Locked">>)']_vars

\* C12: lock moves Active to Locked, dropping the session key; in Locked or
\* Killed it leaves the state unchanged; without poisoning it leaves the fuse
\* alone; a Locked keystore stays Locked until a successful unlock or a kill,
\* and while it is Locked with_session returns Locked without running the closure
\* (Killed once the fuse is set).
C12_LockFrame ==
  /\ [](/\ (state.tag = "Active" /\ ~poisoned) => KeyStore_lock.state = StLocked
        /\ state.tag \in {"Locked", "Killed"} => KeyStore_lock.state = state
        /\ ~poisoned => KeyStore_lock.killed = GLOBAL_KILLED
        /\ KeyStore_lock.state.tag # "Active" => KeyStore_lock.state.key = <<"none">>
        /\ state = StLocked =>
             \A f \in ChunkCalls :
               LET w == KeyStore_with_session(f)
               IN  /\ ~w.invoked /\ w.out = f[6]
                   /\ w.err = IF GLOBAL_KILLED THEN <<"Killed">>
                              ELSE IF poisoned THEN <<"Poisoned">>
                              ELSE <<"Locked">>)
  /\ [][(last'.op = "Core::lock" /\ last' # last /\ ~poisoned)
          => /\ state' = (IF state.tag = "Active" THEN StLocked ELSE state)
             /\ GLOBAL_KILLED' = GLOBAL_KILLED]_vars
  /\ [][(state = StLocked /\ state' # state)
          => \/ SuccessfulUnlockStep
             \/ state' = StKilled /\ GLOBAL_KILLED']_vars

\* C12's case: lock was called on a live keystore that had been Active (it had
\* encrypted a chunk), and the keystore is Locked
C12_LockedAfterActive ==
  /\ last.op = "Core::lock" /\ state = StLocked /\ wire.some
  /\ ~GLOBAL_KILLED /\ ~poisoned

\* C13: a chunk call succeeds (or the closure runs at all) only in an Active,
\* live keystore; Active is entered only by a successful unlock and left by
\* lock and by kill, after either of which no chunk call succeeds; with_session
\* returns Locked in Locked and Killed in Killed without invoking the closure.
C13_NoUseWithoutUnlock ==
  /\ [](\A f \in ChunkCalls :
          LET w == KeyStore_with_session(f)
              c == Core_chunk(f)
          IN  /\ (w.err = <<"Ok">> \/ w.invoked \/ c.err = "Ok" \/ c.invoked)
                   => (state.tag = "Active" /\ ~GLOBAL_KILLED /\ ~poisoned)
              /\ (state.tag = "Locked" /\ ~GLOBAL_KILLED /\ ~poisoned)
                   => (w.err = <<"Locked">> /\ ~w.invoked /\ c.err = "Locked")
              /\ (state.tag = "Killed" \/ GLOBAL_KILLED)
                   => (w.err = <<"Killed">> /\ ~w.invoked /\ c.err = "Killed"))
  /\ [][(state'.tag = "Active" /\ state.tag # "Active") => SuccessfulUnlockStep]_vars
  /\ [][(\/ last'.op = "Core::lock" /\ last' # last
         \/ GLOBAL_KILLED' /\ ~GLOBAL_KILLED)
          => \A f \in ChunkCalls :
               (KeyStore_with_session(f).err # <<"Ok">> /\ Core_chunk(f).err # "Ok")']_vars
  /\ [][(last' # last /\ last'.op \in {"Core::encrypt_chunk", "Core::decrypt_chunk"}
         /\ last'.code = BridgeError.Ok)
          => (state.tag = "Active" /\ ~GLOBAL_KILLED /\ ~poisoned)]_vars

\* C13's case: after unlock and a successful encryption the keystore was locked,
\* and the next encrypt_chunk came back Locked without running the closure
C13_RefusedAfterLock ==
  /\ last.op = "Core::encrypt_chunk" /\ last.code = BridgeError.Locked
  /\ ~last.invoked /\ wire.some /\ state = StLocked

\* a kill ran to its halt in an earlier process lifetime: this process is not
\* inside execute_kill, and the log holds the token that kill committed
KilledBeforeRestart == kpc = "idle" /\ committed # <<>>

KilledFrame == ToBeBytes(Len(KILLED_RECORD), 4) \o KILLED_RECORD

\* C15: with a working filesystem, an execute_kill that ran to its halt has
\* left a length-prefixed KILLED record at the end of device_kill.log.
C15_MarkerWritten ==
  (kpc = "aborted" /\ LOG_ROOT) =>
    LET file == fs["device_kill.log"]
        n    == Len(file)
        m    == Len(KilledFrame)
    IN  n >= m /\ SubSeq(file, n - m + 1, n) = KilledFrame

\* C15's case: the executor halted after a marker attempt, and the log holds
\* exactly the committed replay tokens
C15_HaltedWithTokensOnly ==
  /\ kpc = "aborted" /\ LOG_ROOT /\ "mark" \in Range(ktrace)
  /\ fs["device_kill.log"] = LogOf(committed)

\* C16: the blob generate_kill_blob makes for this registry's own device id is
\* accepted by verify_kill_blob under the same root key and registry, and the
\* decision carries the replay value that went in.
C16_RoundTrip ==
  /\ registry.some =>
       \A root \in RootKeys, t \in KillReplays, n \in KillNonces :
         LET blob == generate_kill_blob(root, registry, registry.device_id, t, n)
             v    == verify_kill_blob(registry, root, blob)
         IN  v.some /\ v.replay = t
  /\ (/\ last.op = "verify_kill_blob" /\ last.args[2] = "generated"
      /\ last.args[1] = last.args[4])
       => (last.err = <<"Some">> /\ last.code = last.args[3])

\* C16's case: a generated blob was verified under the root key and registry it
\* was generated with, and was rejected
C16_GeneratedBlobRejected ==
  /\ last.op = "verify_kill_blob" /\ last.args[2] = "generated"
  /\ last.args[1] = last.args[4] /\ last.err = <<"None">>

\* C17: verify_kill_blob returns the embedded replay value exactly when the blob
\* has at least 28 bytes, opens under the device's kill key and kill AAD, has a
\* 41-byte plaintext starting with 1 and carries this registry's device id, and
\* None otherwise; a call of it changes nothing but its result.
C17_VerifyExactly ==
  /\ [](registry.some =>
          \A root \in RootKeys, sr \in RootKeys, k \in BlobKinds,
             t \in KillReplays, n \in KillNonces :
            LET blob == KillBlobInput(k, sr, registry, t, n)
                v    == verify_kill_blob(registry, root, blob)
                key  == derive_key(root, "Recovery", registry.fingerprint).key
                body == SubSeq(blob, NONCE_LEN + 1, Len(blob))
                o    == open(key, SubSeq(blob, 1, NONCE_LEN), body,
                             build_kill_aad(registry),
                             Zeroed(Stale(Len(body) - TAG_LEN)))
                accept == /\ Len(blob) >= 28
                          /\ o.ok
                          /\ Len(o.out) = 41
                          /\ o.out[1] = B(1)
                          /\ SubSeq(o.out, 2, 33) = registry.device_id
            IN  /\ v = IF accept
                         THEN [some |-> TRUE,
                               replay |-> FromBeBytes([i \in 1..8 |-> o.out[33 + i][2]])]
                         ELSE NoDecision
                /\ accept <=> (k = "v1" /\ sr = root)
                /\ accept => v.replay = t)
  /\ [][(last'.op = "verify_kill_blob" /\ last' # last)
          => UNCHANGED <<GLOBAL_KILLED, state, poisoned, fs, registry, kpc,
                         ktrace, committed>>]_vars

\* C17's case: a well-formed blob for this device, carrying the replay value
\* 258, was verified and accepted with that value
C17_AcceptedWithReplay ==
  /\ last.op = "verify_kill_blob" /\ last.args[2] = "v1"
  /\ last.err = <<"Some">> /\ last.code = 258 /\ last.args[3] = 258

\* the bridge codes of a call that was refused without a kill
RefusalCodes ==
  {BridgeError.Locked, BridgeError.InvalidInput, BridgeError.CryptoFailure,
   BridgeError.IntegrityFailure, BridgeError.Denied}

BridgeOps ==
  {"rcx_init", "rcx_unlock_with_phrase", "Core::unlock_with_phrase",
   "Core::encrypt_chunk", "Core::decrypt_chunk"}

\* C18: a bridge call that returns Locked, InvalidInput, CryptoFailure,
\* IntegrityFailure or Denied leaves the keystore state and the fuse as they were.
C18_RefusalChangesNothing ==
  /\ [](/\ \A p \in Phrases :
             LET r == Core_unlock_with_phrase(p)
             IN  BridgeError[r.err] \in RefusalCodes
                   => (r.state = state /\ r.killed = GLOBAL_KILLED)
        /\ \A h \in Handles, n \in BOOLEAN, p \in Phrases :
             LET r == rcx_unlock_with_phrase(h, n, p)
             IN  r.code \in RefusalCodes
                   => (r.state = state /\ r.killed = GLOBAL_KILLED)
        /\ \A f \in ChunkCalls :
             LET c == Core_chunk(f)
             IN  BridgeError[c.err] \in RefusalCodes => c.killed = GLOBAL_KILLED)
  /\ [][(last' # last /\ last'.op \in BridgeOps /\ last'.code \in RefusalCodes)
          => (state' = state /\ GLOBAL_KILLED' = GLOBAL_KILLED)]_vars

\* C18's case: unlock_with_phrase was refused with IntegrityFailure on an Active,
\* live keystore, which is still Active and live
C18_RefusedWhileActive ==
  /\ last.op = "Core::unlock_with_phrase"
  /\ last.code = BridgeError.IntegrityFailure
  /\ state.tag = "Active" /\ ~GLOBAL_KILLED

\* the length combinations the buffer contract excludes
WrongLengths(which, in_len, out_len) ==
  IF which = "encrypt_chunk"
    THEN out_len # in_len + TAG_LEN
    ELSE in_len < TAG_LEN \/ out_len # in_len - TAG_LEN

\* inputs and output lengths around the contract
ContractInputs ==
  Plaintexts \cup {wire.ct} \cup
  {[j \in 1..n |-> B(0)] : n \in {TAG_LEN - 1, TAG_LEN, TAG_LEN + 1}}
ContractOutLens == 0..(MaxLen + TAG_LEN + 1)

\* C19: encrypt_chunk wants out = input + 16 bytes, decrypt_chunk wants
\* input >= 16 and out = input - 16; with any other lengths the call, whatever
\* the session holds, fails with InvalidInput or OutputTooSmall, both 3 at the
\* bridge, has zeroed out, and has not used the session key; with the right
\* lengths it is not refused for its lengths.
C19_BufferContract ==
  /\ \A which \in {"encrypt_chunk", "decrypt_chunk"},
        input \in ContractInputs, n \in ContractOutLens :
       LET f == <<which, SampleFile, 1, 0, input, Stale(n)>>
           r == SessionClosure(f, <<"authority", 1>>, FALSE)
       IN  IF WrongLengths(which, Len(input), n)
             THEN /\ r.err \in {"InvalidInput", "OutputTooSmall"}
                  /\ BridgeError[map_session_error(r.err)] = BridgeError.InvalidInput
                  /\ r.out = Zeroed(Stale(n))
                  /\ \A key \in AuthKeys \cup {<<"none">>}, killed \in BOOLEAN :
                       SessionClosure(f, key, killed) = r
             ELSE /\ r.err \notin {"InvalidInput", "OutputTooSmall"}
                  /\ which = "encrypt_chunk" => r.err = "Ok"
  /\ \A f \in ChunkCalls :
       LET c == Core_chunk(f)
       IN  /\ (state.tag = "Active" /\ ~GLOBAL_KILLED /\ ~poisoned) => c.invoked
           /\ (c.invoked /\ WrongLengths(f[1], Len(f[5]), Len(f[6])))
                => (c.err = "InvalidInput" /\ c.out = Zeroed(f[6]))
           /\ (c.invoked /\ ~WrongLengths(f[1], Len(f[5]), Len(f[6])))
                => c.err # "InvalidInput"
  /\ (last.op \in {"Core::encrypt_chunk", "Core::decrypt_chunk"}
      /\ last.code = BridgeError.InvalidInput)
       => (last.invoked /\ AllZero(last.out))

\* C19's case: an Active keystore was asked to encrypt into a buffer one byte
\* short; the call ran, came back 3, and the buffer is zeroed
C19_ShortBufferRefused ==
  /\ last.op = "Core::encrypt_chunk" /\ last.code = BridgeError.InvalidInput
  /\ last.invoked /\ Len(last.out) = Len(last.args[4]) + TAG_LEN - 1
  /\ AllZero(last.out) /\ state.tag = "Active"

\* C20 as stated: with the right output length, encrypt_chunk refuses a
\* plaintext, and decrypt_chunk an input that holds a tag, exactly when its
\* length is above 4 MiB.
C20_AsStated ==
  /\ \A n \in SizeLens :
       /\ encrypt_chunk_validate(n, n + TAG_LEN) = "InvalidInput"
            <=> n > 4 * 1024 * 1024
       /\ n >= TAG_LEN =>
            (decrypt_chunk_validate(n, n - TAG_LEN) = "InvalidInput"
               <=> n > 4 * 1024 * 1024)
  /\ (last.op \in {"encrypt_chunk", "decrypt_chunk"} /\ last.args[2] >= TAG_LEN)
       => (last.args[2] > 4 * 1024 * 1024 => last.err = <<"InvalidInput">>)

\* C20: encrypt_chunk refuses a plaintext exactly when it is longer than 4 MiB;
\* decrypt_chunk refuses an input that holds a tag exactly when the input less
\* its 16-byte tag is longer than 4 MiB; the refusal is InvalidInput whatever
\* the output length, and a refused call has zeroed out; no plaintext of up to
\* 4 MiB and no ciphertext of up to 4 MiB + 16 is refused for its size.
C20_SizeLimit ==
  /\ MAX_CHUNK_SIZE = 4194304
  /\ \A n \in SizeLens, d \in SizeDeltas :
       /\ encrypt_chunk_validate(n, n + d) = "InvalidInput" <=> n > MAX_CHUNK_SIZE
       /\ n >= TAG_LEN =>
            (decrypt_chunk_validate(n, n + d) = "InvalidInput"
               <=> n > MAX_CHUNK_SIZE + TAG_LEN)
       /\ n <= MAX_CHUNK_SIZE => encrypt_chunk_validate(n, n + TAG_LEN) = "Ok"
       /\ (n >= TAG_LEN /\ n <= MAX_CHUNK_SIZE + TAG_LEN)
            => decrypt_chunk_validate(n, n - TAG_LEN) = "Ok"
  /\ \A f \in ChunkCalls :
       LET v == IF f[1] = "encrypt_chunk"
                  THEN encrypt_chunk_validate(Len(f[5]), Len(f[6]))
                  ELSE decrypt_chunk_validate(Len(f[5]), Len(f[6]))
           r == SessionClosure(f, <<"authority", 1>>, FALSE)
       IN  v # "Ok" => (r.err = v /\ r.out = Zeroed(f[6]))
  /\ last.op \in {"encrypt_chunk", "decrypt_chunk"} =>
       /\ last.args[2] > MAX_CHUNK_SIZE + TAG_LEN
            => (last.err = <<"InvalidInput">> /\ last.code = BridgeError.InvalidInput)
       /\ (last.op = "encrypt_chunk" /\ last.args[2] > MAX_CHUNK_SIZE)
            => (last.err = <<"InvalidInput">> /\ last.code = BridgeError.InvalidInput)
       /\ (last.op = "decrypt_chunk" /\ last.args[2] = MAX_CHUNK_SIZE + TAG_LEN
           /\ last.args[3] = MAX_CHUNK_SIZE)
            => last.err = <<"Ok">>

\* C20's case: decrypt_chunk was handed 4 MiB + 17 bytes and an output buffer of
\* 4 MiB + 1, and refused them with InvalidInput
C20_OversizeRefused ==
  /\ last.op = "decrypt_chunk" /\ last.err = <<"InvalidInput">>
  /\ last.args[2] = MAX_CHUNK_SIZE + TAG_LEN + 1
  /\ last.args[3] = MAX_CHUNK_SIZE + 1

\* C21: is_killed is true exactly when the kill log has content, or cannot be
\* opened or inspected (no log root, fuse set, I/O error); an error never gives
\* false; the call changes nothing.
C21_IsKilledFailsClosed ==
  /\ [](\A io \in {"ok", "open_err", "metadata_err"} :
          registry_is_killed(io)
            <=> (\/ Len(fs["device_kill.log"]) > 0
                 \/ ~LOG_ROOT \/ GLOBAL_KILLED \/ io # "ok"))
  /\ [][(last'.op = "DeviceRegistry::is_killed" /\ last' # last)
          => /\ UNCHANGED <<GLOBAL_KILLED, state, fs, registry, kpc>>
             /\ last'.code = 0
                  <=> (/\ last'.args[1] = "ok" /\ LOG_ROOT /\ ~GLOBAL_KILLED
                       /\ fs["device_kill.log"] = <<>>)]_vars

\* C21's case: the metadata call failed on an openable, empty kill log of a
\* live device, and is_killed answered true
C21_ErrorReadsAsKilled ==
  /\ last.op = "DeviceRegistry::is_killed" /\ last.args[1] = "metadata_err"
  /\ last.code = 1 /\ LOG_ROOT /\ ~GLOBAL_KILLED /\ fs["device_kill.log"] = <<>>

\* C22: allow(op) is false for every operation and capability set when the fuse
\* is set or registry.is_killed() is true; otherwise it is the membership of the
\* capability op asks for (Route asks for RouteContent); once the device is
\* killed (fuse set, or kill log written) it is never allowed anything again.
C22_PolicyGate ==
  /\ [](\A set \in DOMAIN CAPS, op \in DOMAIN OperationCapability,
           io \in {"ok", "open_err", "metadata_err"} :
          LET a == PolicyEnforcer_allow(CAPS[set], op, io)
              required ==
                CASE op = "Route" -> "RouteContent"
                  [] OTHER -> op
          IN  /\ (GLOBAL_KILLED \/ registry_is_killed(io)) => ~a
              /\ ~(GLOBAL_KILLED \/ registry_is_killed(io))
                   => (a <=> required \in CAPS[set])
              /\ a => \/ set = "ADMIN"
                      \/ /\ set = "STANDARD"
                         /\ op \in {"Upload", "Download", "Restore", "Route",
                                    "ViewStatus"})
  /\ DOMAIN OperationCapability =
       {"Upload", "Download", "Restore", "Route", "ViewStatus", "RegisterDevice",
        "RemoveDevice", "IssueKill"}
  /\ [][(GLOBAL_KILLED \/ Len(fs["device_kill.log"]) > 0)
          => (GLOBAL_KILLED \/ Len(fs["device_kill.log"]) > 0)']_vars
  /\ [][(last'.op = "PolicyEnforcer::allow" /\ last' # last /\ last'.code = 1)
          => (~GLOBAL_KILLED /\ fs["device_kill.log"] = <<>>)]_vars

\* C22's case: an admin's IssueKill was denied on a device whose fuse is clear
\* and whose filesystem works, because the kill log has content
C22_DeniedByKillLog ==
  /\ last.op = "PolicyEnforcer::allow" /\ last.args = <<"ADMIN", "IssueKill", "ok">>
  /\ last.code = 0 /\ ~GLOBAL_KILLED /\ Len(fs["device_kill.log"]) > 0

\* C23: every value a bridge entry point returns is one of the frozen codes
\* 0 Ok, 1 Locked, 2 Killed, 3 InvalidInput, 4 CryptoFailure, 5 IntegrityFailure,
\* 6 Denied; the mapping from session and keystore errors is defined on every
\* variant, with Poisoned to Killed, OutputTooSmall to InvalidInput and
\* AlreadyUnlocked to Denied; a caught panic is reported as CryptoFailure, and
\* as 1 by isKilled.
C23_FrozenCodes ==
  LET Codes == {BridgeError[n] : n \in DOMAIN BridgeError}
      SessionErrors == {"Killed", "Locked", "InvalidInput", "OutputTooSmall",
                        "CryptoFailure"}
      KeyStoreErrors == {<<"Locked">>, <<"Killed">>, <<"Poisoned">>,
                         <<"AlreadyUnlocked">>}
                          \cup {<<"Session", e>> : e \in SessionErrors}
  IN  /\ BridgeError = [Ok |-> 0, Locked |-> 1, Killed |-> 2, InvalidInput |-> 3,
                        CryptoFailure |-> 4, IntegrityFailure |-> 5, Denied |-> 6]
      /\ Codes = 0..6
      /\ \A e \in SessionErrors : map_session_error(e) \in DOMAIN BridgeError
      /\ \A e \in KeyStoreErrors : map_keystore_error(e) \in DOMAIN BridgeError
      /\ map_keystore_error(<<"Poisoned">>) = "Killed"
      /\ map_keystore_error(<<"AlreadyUnlocked">>) = "Denied"
      /\ map_session_error("OutputTooSmall") = "InvalidInput"
      /\ map_keystore_error(<<"Session", "OutputTooSmall">>) = "InvalidInput"
      /\ \A null \in BOOLEAN, rnd \in {0, 2} : rcx_init(null, rnd).code \in Codes
      /\ \A h \in Handles, null \in BOOLEAN, p \in Phrases :
           rcx_unlock_with_phrase(h, null, p).code \in Codes
      /\ \A p \in Phrases :
           /\ BridgeError[Core_unlock_with_phrase(p).err] \in Codes
           /\ \A o \in {"ran", "convert_err", "panic"} :
                jni_unlockWithPhrase(o, p).code \in Codes
           /\ jni_unlockWithPhrase("panic", p).code = BridgeError.CryptoFailure
      /\ jni_isKilled("panic") = 1
      /\ jni_isKilled("ran") = (IF GLOBAL_KILLED THEN 1 ELSE 0)
      /\ last.op \in {"rcx_init", "rcx_unlock_with_phrase",
                      "Core::unlock_with_phrase", "Core::encrypt_chunk",
                      "Core::decrypt_chunk", "Core::lock", "Core::is_killed",
                      "jni::unlockWithPhrase", "jni::isKilled"}
           => last.code \in Codes

\* C23's case: the JNI unlock caught a panic and returned CryptoFailure while
\* the keystore mutex was poisoned, where the core itself would report Killed
C23_PanicReported ==
  /\ last.op = "jni::unlockWithPhrase" /\ last.err = <<"panic">>
  /\ last.code = 4 /\ poisoned

\* C24 as stated: on an un-killed core, rcx_unlock_with_phrase with a handle
\* other than the singleton id, or before any rcx_init, returns Denied (6),
\* whatever the phrase buffer.
C24_AsStated ==
  ~GLOBAL_KILLED =>
    \A h \in Handles, null \in BOOLEAN, p \in Phrases :
      (CORE_ID = 0 \/ h # CORE_ID)
        => rcx_unlock_with_phrase(h, null, p).code = BridgeError.Denied

\* C24: on an un-killed core, rcx_unlock_with_phrase with a handle other than the
\* singleton id, or before any rcx_init, returns Denied (6) when the phrase
\* buffer is non-null and non-empty and InvalidInput (3) when it is null or
\* empty; either way the keystore state and the fuse stay as they were and
\* the result is not the one the core gives for the phrase.
C24_HandleValidation ==
  /\ [](~GLOBAL_KILLED =>
          \A h \in Handles, null \in BOOLEAN, p \in Phrases :
            (CORE_ID = 0 \/ h # CORE_ID) =>
              LET r == rcx_unlock_with_phrase(h, null, p)
              IN  /\ r.code = IF null \/ Len(p) = 0 THEN BridgeError.InvalidInput
                                                    ELSE BridgeError.Denied
                  /\ r.state = state
                  /\ r.killed = GLOBAL_KILLED
                  /\ r.code # BridgeError[Core_unlock_with_phrase(p).err])
  /\ [][(/\ last'.op = "rcx_unlock_with_phrase" /\ last' # last
         /\ ~GLOBAL_KILLED
         /\ (CORE_ID = 0 \/ last'.args[1] # CORE_ID))
          => /\ last'.code = IF Len(last'.args[3]) = 0 THEN 3 ELSE 6
             /\ state' = state
             /\ GLOBAL_KILLED' = GLOBAL_KILLED]_vars

\* C24's case: after rcx_init, an unlock with the other handle and a non-empty
\* phrase was denied while a session was active
C24_WrongHandleDenied ==
  /\ last.op = "rcx_unlock_with_phrase" /\ last.code = 6
  /\ CORE_ID # 0 /\ last.args[1] # CORE_ID /\ Len(last.args[3]) > 0
  /\ ~GLOBAL_KILLED /\ state.tag = "Active"

\* C25: the first successful load_or_init(material) stores a 40-byte record with
\* device_id = SHA-256(material) and fingerprint = its first 8 bytes; every later
\* load_or_init, with any material, returns the stored pair and leaves the file
\* as it is; a stored record whose length is not 40 gives Corrupt and no registry.
C25_IdentityStable ==
  /\ [](open_overwrite =>
          \A m \in KillMaterials :
            LET file == fs["device_identity.bin"]
                r    == load_or_init(m)
            IN  /\ file = <<>> =>
                     /\ r.err = "Ok" /\ Len(r.file) = 40
                     /\ SubSeq(r.file, 1, 32) = hash_sha256(m)
                     /\ SubSeq(r.file, 33, 40) = SubSeq(hash_sha256(m), 1, 8)
                     /\ r.reg = [some |-> TRUE, device_id |-> hash_sha256(m),
                                 fingerprint |-> SubSeq(hash_sha256(m), 1, 8)]
                /\ Len(file) = 40 =>
                     /\ r.err = "Ok" /\ r.file = file
                     /\ r.reg = [some |-> TRUE, device_id |-> SubSeq(file, 1, 32),
                                 fingerprint |-> SubSeq(file, 33, 40)]
                /\ Len(file) \notin {0, 40} =>
                     /\ r.err = "Corrupt" /\ ~r.reg.some /\ r.file = file)
  /\ [][(last'.op = "load_or_init" /\ last' # last /\ fs["device_identity.bin"] # <<>>)
          => /\ fs' = fs
             /\ last'.err = <<"Ok">> =>
                  /\ registry'.device_id = SubSeq(fs["device_identity.bin"], 1, 32)
                  /\ registry'.fingerprint = SubSeq(fs["device_identity.bin"], 33, 40)
             /\ last'.err # <<"Ok">> => registry' = registry]_vars

\* C25's case: load_or_init with the second material returned the identity that
\* the first material had stored
C25_LaterLoadKeepsIdentity ==
  /\ last.op = "load_or_init" /\ last.err = <<"Ok">> /\ last.args = <<(<<2>>)>>
  /\ registry.some /\ registry.device_id = hash_sha256(<<1>>)
  /\ fs["device_identity.bin"] = hash_sha256(<<1>>) \o from_material(<<1>>)

\* C26: under one session key, two distinct (file_id, chunk) pairs never give the
\* same (derived key, nonce input): the per-file key depends on file_id, and the
\* MAC input label || file_id_be(8) || chunk_be(4) is fixed-width, so it differs
\* whenever file_id or chunk differs; the nonce of a ciphertext is the one of
\* its own pair and of no other, and two ciphertexts made in a row under one
\* session key for different pairs carry different (key, nonce).
C26_NonceInputsUnique ==
  /\ [](LET FileIds == {0, 1, 256, SampleFile, 2147483647}
            Chunks  == {0, 1, 256, 2147483647}
            Pairs   == FileIds \X Chunks
            enc_key(k, f) == derive_key(k, "FileEncryption", ToBeBytes(f, 8)).key
            nonce(k, p)   == derive_nonce(enc_key(k, p[1]), p[1], p[2])
        IN  /\ ~wire.some =>
                 \A k \in AuthKeys : \A p \in Pairs, q \in Pairs :
                   /\ Len(nonce(k, p)[3]) = 1 + 8 + 4
                   /\ p # q => /\ nonce(k, p)[3] # nonce(k, q)[3]
                               /\ nonce(k, p) # nonce(k, q)
                   /\ p[1] # q[1] => enc_key(k, p[1]) # enc_key(k, q[1])
            /\ wire.some =>
                 \A q \in Pairs :
                   (nonce(wire.key, q) = wire.ct[Len(wire.ct)][3])
                     <=> q = <<wire.file_id, wire.chunk>>)
  /\ [][(/\ wire.some /\ wire'.some /\ wire' # wire /\ wire'.key = wire.key
         /\ <<wire'.file_id, wire'.chunk>> # <<wire.file_id, wire.chunk>>)
          => <<wire'.ct[Len(wire'.ct)][2], wire'.ct[Len(wire'.ct)][3]>>
               # <<wire.ct[Len(wire.ct)][2], wire.ct[Len(wire.ct)][3]>>]_vars

\* C26's case: a chunk of the second file was encrypted under the session key
\* in use, and its nonce is not the one the sample file's first chunk gets
C26_SecondFileEncrypted ==
  /\ last.op = "Core::encrypt_chunk" /\ last.code = 0
  /\ wire.some /\ state.tag = "Active" /\ wire.key = state.key
  /\ <<wire.file_id, wire.chunk>> = <<7, 1>>
  /\ wire.ct[Len(wire.ct)][3]
       = derive_nonce(derive_key(state.key, "FileEncryption", ToBeBytes(7, 8)).key,
                      7, 1)
  /\ wire.ct[Len(wire.ct)][3]
       # derive_nonce(derive_key(state.key, "FileEncryption",
                                 ToBeBytes(SampleFile, 8)).key, SampleFile, 0)

\* C27: when a guarded cell is dropped its bytes are all zero at the moment the
\* memory is unlocked and at the moment it is deallocated, and the allocation is
\* gone afterwards; when the initializer of init_with panics the allocation is
\* zeroized, unlocked and freed in that order, nothing of it stays allocated and
\* no cell is handed out; a cell that is held is allocated and locked.
C27_WipedBeforeFree ==
  /\ [](/\ heap.freed # <<>> =>
             /\ Len(heap.freed) = 3
             /\ [i \in 1..3 |-> heap.freed[i].op] = <<"zeroize", "munlock", "dealloc">>
             /\ \A i \in 2..3 :
                  /\ Len(heap.freed[i].bytes) = CELL_LEN
                  /\ AllZero(heap.freed[i].bytes)
                  /\ heap.freed[i].id = heap.freed[1].id
             /\ heap.freed[1].id \notin {a.id : a \in heap.live} \cup heap.boxes
        /\ \A id \in heap.boxes : \E a \in heap.live : a.id = id /\ a.locked
        /\ \A fill \in {0, 170}, n \in {0, 16, CELL_LEN} :
             LET h == GuardedBox_init_with("init_panics", fill, n)
             IN  h.live = heap.live /\ h.boxes = heap.boxes)
  /\ [][(last'.op = "GuardedBox::drop" /\ last' # last)
          => /\ heap'.freed[1] = [op |-> "zeroize", id |-> last'.args[1],
                                  bytes |-> CellAt(last'.args[1]).bytes]
             /\ heap'.live = heap.live \ {CellAt(last'.args[1])}
             /\ heap'.boxes = heap.boxes \ {last'.args[1]}]_vars
  /\ [][(/\ last'.op = "GuardedBox::init_with" /\ last' # last
         /\ last'.err = <<"init_panics">>)
          => /\ heap'.live = heap.live /\ heap'.boxes = heap.boxes
             /\ heap'.freed[3].op = "dealloc"
             /\ heap'.freed[3].id = last'.args[3]]_vars

\* C27's case: while another cell was held, an initializer panicked after
\* writing 16 bytes of 0xAA, and the allocation was deallocated with zero bytes
C27_PanickedInitFreed ==
  /\ last.op = "GuardedBox::init_with" /\ last.err = <<"init_panics">>
  /\ last.args[1] = 170 /\ last.args[2] = 16
  /\ heap.boxes # {} /\ heap.freed[1].bytes[1] = B(170)
  /\ heap.freed[3].op = "dealloc" /\ AllZero(heap.freed[3].bytes)

\* C28: once the wipe step of a kill is done (step 3 of execute_kill, or
\* apply_remote_kill), the keystore never holds an Active session again, also
\* when an unlock that read the fuse before it was stored takes the mutex after
\* the wipe.
C28_NoActiveAfterWipe ==
  /\ []("wipe" \in {ktrace[i] : i \in 1..Len(ktrace)} => state.tag # "Active")
  /\ [][state.tag = "Killed" => state'.tag = "Killed"]_vars

\* C28's failing case: the fuse is set and execute_kill's wipe is done, and the
\* unlock that had read the fuse as clear has just put an Active session in place
C28_UnlockedAfterWipe ==
  /\ GLOBAL_KILLED /\ kpc = "mark" /\ ktrace = <<"commit", "fuse", "wipe">>
  /\ last.op = "KeyStore::unlock" /\ last.err = <<"Ok">>
  /\ Len(last.args) = 2 /\ last.args[2] = "fuse_read"
  /\ state = StActive(last.args[1])

\* C29: the wipe step of execute_kill leaves the keystore in the terminal Killed
\* state with no session key, whether it found it Locked or Active; it does not
\* leave it Locked.
C29_WipeLeavesKilled ==
  [][(kpc = "wipe" /\ kpc' = "mark") => state' = StKilled]_vars

\* C29's failing case: execute_kill found an Active session that had encrypted a
\* chunk, and after its wipe step the keystore is Locked
C29_WipedToLocked ==
  /\ kpc = "mark" /\ ktrace = <<"commit", "fuse", "wipe">> /\ GLOBAL_KILLED
  /\ wire.some /\ state = StLocked

\* C30: a session encrypt or decrypt_verify call that returns when the fuse is
\* set returns Killed and leaves its output buffer all zero, wherever in the
\* call the fuse was stored.
C30_InFlightCallKilled ==
  [][(/\ last'.op \in {"Session::encrypt", "Session::decrypt_verify"}
      /\ last' # last
      /\ GLOBAL_KILLED)
       => (last'.err = <<"Killed">> /\ AllZero(last'.out))]_vars

\* C30's failing case: the fuse was stored after the call's second load of it,
\* and encrypt returned Ok with the ciphertext in the buffer
C30_SealedAfterFuse ==
  /\ last.op = "Session::encrypt" /\ last.err = <<"Ok">>
  /\ last.args = <<"rechecked", TRUE>> /\ GLOBAL_KILLED
  /\ last.out[1] # B(0) /\ kpc = "wipe"

\* C31: check_and_commit reads and appends kill_replay.log only and never
\* changes device_kill.log; device_kill.log is written only by
\* mark_this_device_killed (step 4 of execute_kill); the replay log is a
\* sequence of 8-byte records, its size a multiple of 8.
C31_ReplayLogOnly ==
  /\ [][fs'["device_kill.log"] # fs["device_kill.log"]
          => (kpc = "mark" /\ kpc' = "halt")]_vars
  /\ [][(last'.op = "check_and_commit" /\ last' # last /\ last'.code = 1)
          => fs'["kill_replay.log"]
               = fs["kill_replay.log"] \o ToBeBytes(last'.args[1], 8)]_vars
  /\ [](Len(fs["kill_replay.log"]) % 8 = 0)

\* C31's failing case: check_and_commit accepted a token; its 8 bytes are in
\* device_kill.log and kill_replay.log is empty
C31_TokenInKillMarker ==
  /\ last.op = "check_and_commit" /\ last.code = 1
  /\ fs["device_kill.log"] = ToBeBytes(last.args[1], 8)
  /\ fs["kill_replay.log"] = <<>>

\* C32: read_last_u64 gives None for an empty file, the last 8 bytes as a
\* big-endian u64 for a size that is a positive multiple of 8, and an error for
\* every size that is not a multiple of 8, sizes 1 to 7 included;
\* check_and_commit rejects the token and writes nothing when read_last_u64
\* reports an error.
C32_CorruptTailRejected ==
  LET file == fs["device_kill.log"]
      len  == Len(file)
      r    == read_last_u64(file)
  IN  /\ len = 0 => (r.ok /\ ~r.some)
      /\ (len > 0 /\ len % 8 = 0)
           => (r.ok /\ r.some /\ r.v = FromBeBytes(SubSeq(file, len - 7, len)))
      /\ len % 8 # 0 => ~r.ok
      /\ (open_append /\ ~r.ok) =>
           \A t \in Tokens : check_and_commit(t) = [ret |-> FALSE, file |-> file]

\* C32's failing case: the log held 1 to 7 bytes, read_last_u64 took it for
\* empty, and check_and_commit accepted a token and appended it after the tail
C32_TokenAfterShortTail ==
  /\ last.op = "check_and_commit" /\ last.code = 1
  /\ Len(fs["device_kill.log"]) \in 9..15
  /\ committed = <<last.args[1]>>

\* C33: with the fuse set, append_record, append_u64 and write_fixed return an
\* error and leave the file byte for byte as it was, open_append and
\* open_overwrite fail, and no call changes any file.
C33_NoWriteAfterFuse ==
  /\ [](GLOBAL_KILLED =>
          /\ ~open_append /\ ~open_overwrite
          /\ \A n \in FileNames :
               /\ \A data \in {<<>>, KILLED_RECORD} :
                    /\ append_record(fs[n], data) = [ok |-> FALSE, file |-> fs[n]]
                    /\ write_fixed(fs[n], data) = [ok |-> FALSE, file |-> fs[n]]
               /\ \A v \in Tokens :
                    append_u64(fs[n], v) = [ok |-> FALSE, file |-> fs[n]])
  /\ [][GLOBAL_KILLED => fs' = fs]_vars

\* C33's case: the fuse is set, execute_kill has been through its marker step,
\* a later check_and_commit was refused, and the log holds just the tokens
\* committed before the fuse
C33_RefusedWithFuseSet ==
  /\ GLOBAL_KILLED /\ kpc = "halt" /\ LOG_ROOT
  /\ last.op = "check_and_commit" /\ last.code = 0
  /\ last.args[1] > committed[Len(committed)]
  /\ Len(committed) >= 2
  /\ fs["device_kill.log"] = LogOf(committed)

\* C34: when Session::encrypt or Session::decrypt_verify returns an error, or
\* decrypt_verify returns verified = false, the caller's output buffer is all
\* zeros, on every failure path, the first kill / lock check included.
C34_FailureZeroesOutput ==
  /\ [](\A key \in {state.key, <<"none">>}, k1 \in BOOLEAN, k2 \in BOOLEAN,
           n \in {0, 1 + TAG_LEN} :
          LET e == Session_encrypt(key, k1, k2, <<B(84)>>, RaceAad, Stale(n))
              d == Session_decrypt_verify(key, k1, k2, Stale(1 + TAG_LEN), RaceAad,
                                          Stale(IF n = 0 THEN 0 ELSE 1))
          IN  /\ e.err # "Ok" => AllZero(e.out)
              /\ (d.err # "Ok" \/ ~d.verified) => AllZero(d.out))
  /\ [][(/\ last'.op \in {"Session::encrypt", "Session::decrypt_verify"}
         /\ last' # last
         /\ (last'.err # <<"Ok">> \/ (last'.op = "Session::decrypt_verify"
                                       /\ ~last'.verified)))
          => AllZero(last'.out)]_vars

\* C34's failing case: decrypt_verify found the fuse set in require_alive and
\* returned Killed with the caller's buffer as it was
C34_KilledWithStaleOutput ==
  /\ last.op = "Session::decrypt_verify" /\ last.err = <<"Killed">>
  /\ last.args = <<"closure", TRUE>> /\ last.out = Stale(1)

\* C35: the key derive_key produces is a function of (parent key, purpose,
\* context) and of nothing else, and the HKDF info label || context_be(8) is
\* injective over the four purposes and the u64 contexts: two different
\* (purpose, context) pairs never give the same info bytes, so never the same
\* key under one parent; the key a chunk was sealed under is the one derive_key
\* gives for the session key and the chunk's file_id.
C35_InfoInjective ==
  /\ [](LET Purposes == {"FileEncryption", "Metadata", "Pairing", "Recovery"}
            Contexts == {ToBeBytes(n, 8) : n \in {0, 1, 255, 256, 7, SampleFile}}
                          \cup {[i \in 1..8 |-> 255], <<128, 0, 0, 0, 0, 0, 0, 0>>,
                                <<58, 118, 49, 0, 0, 0, 0, 0>>,
                                <<58, 101, 110, 99, 58, 118, 49, 0>>,
                                INTEGRITY_CONTEXT}
            Inputs   == Purposes \X Contexts
            d(k, x)  == derive_key(k, x[1], x[2])
        IN  ~wire.some => \A x \in Inputs :
              /\ d(state.key, x).ok
              /\ Len(d(state.key, x).key[3]) = Len(PurposeLabel(x[1])) + 8
              /\ SubSeq(d(state.key, x).key[3], Len(PurposeLabel(x[1])) + 1,
                        Len(PurposeLabel(x[1])) + 8) = x[2]
              /\ \A y \in Inputs :
                   /\ (d(state.key, x).key[3] = d(state.key, y).key[3]) <=> (x = y)
                   /\ (d(state.key, x).key = d(state.key, y).key) <=> (x = y)
                   /\ \A k \in AuthKeys :
                        (d(k, x).key = d(state.key, y).key) <=> (k = state.key /\ x = y))
  /\ [][(wire'.some /\ wire' # wire)
          => wire'.ct[Len(wire'.ct)][2]
               = derive_key(wire'.key, "FileEncryption",
                            ToBeBytes(wire'.file_id, 8)).key]_vars

\* C35's case: a chunk of each of the two files was sealed, the one kept being
\* under the per-file key derived from the session key and file_id 7, which is
\* not the key of the sample file
C35_PerFileKeyInUse ==
  /\ wire.some /\ wire.file_id = 7 /\ wire.pt = <<B(84)>>
  /\ wire.ct[1][2] = derive_key(wire.key, "FileEncryption", ToBeBytes(7, 8)).key
  /\ wire.ct[1][2] # derive_key(wire.key, "FileEncryption",
                                ToBeBytes(SampleFile, 8)).key
  /\ wire.ct[1][2][3][24 - 1] = 7

\* C36: every handle rcx_init writes to out_handle with result Ok is the
\* singleton id, so a later rcx_unlock_with_phrase with that handle and a
\* non-empty phrase is not denied; this holds for the second and every later
\* rcx_init call as for the first.
C36_IssuedHandleAccepted ==
  (last.op = "rcx_init" /\ last.code = BridgeError.Ok) =>
    /\ last.args[2] = CORE_ID
    /\ ~GLOBAL_KILLED =>
         \A p \in Phrases :
           Len(p) > 0 =>
             rcx_unlock_with_phrase(last.args[2], FALSE, p).code # BridgeError.Denied

\* C36's failing case: a second rcx_init returned Ok and wrote a handle that is
\* not the singleton id set by the first
C36_SecondHandleDiffers ==
  /\ last.op = "rcx_init" /\ last.code = BridgeError.Ok
  /\ CORE_ID # 0 /\ last.args[2] # 0 /\ last.args[2] # CORE_ID
  /\ ~GLOBAL_KILLED

\* the tokens a log of whole 8-byte records holds, in file order
LogRecords(file) == [k \in 1..(Len(file) \div 8) |-> FromBeBytes(SubSeq(file, 8 * k - 7, 8 * k))]

\* C37: under two interleaving check_and_commit calls (open, read-last, compare
\* and append being separate steps, with no lock between the callers) the
\* sequence of records in the replay log stays strictly increasing, and no
\* token value is committed by more than one call.
C37_RacingCommitsOrdered ==
  /\ StrictlyIncreasing(LogRecords(fs["device_kill.log"]))
  /\ \A i \in 1..Len(committed), j \in 1..Len(committed) :
       i # j => committed[i] # committed[j]

\* C37's failing case: both callers read the empty log, and both then appended
\* the same token and returned true
C37_SameTokenTwice ==
  /\ committed = <<2, 2>> /\ fs["device_kill.log"] = LogOf(committed)
  /\ last.op = "check_and_commit" /\ last.code = 1 /\ last.args = <<2, 0>>
  /\ pend = NoPend /\ ~GLOBAL_KILLED

\* C38: encrypt_chunk is deterministic: its output is a function of (session
\* key, file_id, cloud_id, chunk, plaintext) only, whatever the output buffer
\* held before; the AEAD key and nonce it uses are those of (session key,
\* file_id, chunk) alone, so two calls in one session with the same file_id and
\* chunk and a different plaintext or a different cloud_id use the same
\* (key, nonce) pair.
C38_SameKeyNonceForSameChunk ==
  /\ [](LET enc(k, id, pt, out) ==
              encrypt_chunk(k, FALSE, FALSE, id[1], id[2], id[3], pt, out)
            kn(r) == <<r.out[Len(r.out)][2], r.out[Len(r.out)][3]>>
            file_key(k, f) == derive_key(k, "FileEncryption", ToBeBytes(f, 8)).key
        IN  (state.tag = "Active" /\ ~wire.some) =>
              \A id \in SampleIds, pt \in Plaintexts :
                LET r == enc(state.key, id, pt, Stale(Len(pt) + TAG_LEN))
                IN  /\ r.err = "Ok"
                    /\ r = enc(state.key, id, pt, Zeroed(Stale(Len(pt) + TAG_LEN)))
                    /\ kn(r) = <<file_key(state.key, id[1]),
                                 derive_nonce(file_key(state.key, id[1]), id[1], id[3])>>
                    /\ \A cloud \in {id[2], id[2] + 1}, pt2 \in Plaintexts :
                         LET r2 == enc(state.key, <<id[1], cloud, id[3]>>, pt2,
                                       Stale(Len(pt2) + TAG_LEN))
                         IN  /\ kn(r2) = kn(r)
                             /\ (cloud # id[2] \/ pt2 # pt) => r2.out # r.out)
  /\ [][(wire'.some /\ wire' # wire)
          => wire'.ct = encrypt_chunk(wire'.key, FALSE, FALSE, wire'.file_id,
                                      wire'.cloud_id, wire'.chunk, wire'.pt,
                                      Zeroed(wire'.ct)).out]_vars
  /\ [][(/\ wire.some /\ wire'.some /\ wire'.key = wire.key
         /\ <<wire'.file_id, wire'.chunk>> = <<wire.file_id, wire.chunk>>)
          => <<wire'.ct[Len(wire'.ct)][2], wire'.ct[Len(wire'.ct)][3]>>
               = <<wire.ct[Len(wire.ct)][2], wire.ct[Len(wire.ct)][3]>>]_vars

\* C38's case: the sample file's first chunk was sealed, and the (key, nonce)
\* of that ciphertext is the pair the same call gets for another plaintext and
\* another cloud id, while the ciphertext itself is not the same
C38_PairSharedAcrossPlaintexts ==
  /\ last.op = "Core::encrypt_chunk" /\ last.code = 0
  /\ wire.some /\ wire.key = state.key /\ wire.pt = <<B(0)>>
  /\ <<wire.file_id, wire.cloud_id, wire.chunk>> = <<SampleFile, 1, 0>>
  /\ LET other == encrypt_chunk(state.key, FALSE, FALSE, SampleFile, 2, 0,
                                <<B(84)>>, Stale(1 + TAG_LEN))
     IN  /\ other.err = "Ok" /\ other.out # wire.ct
         /\ other.out[2][2] = wire.ct[2][2]
         /\ other.out[2][3] = wire.ct[2][3]

\* C39: in every reachable state of a MasterKeyStore, state Wiped implies
\* GLOBAL_KILLED; once apply_verified_kill has returned on an unpoisoned mutex
\* the state is Wiped and stays Wiped under every interleaving with concurrent
\* unlock (which loads the fuse again after taking the mutex), lock and
\* with_key; and with_key never runs its closure when the fuse was set before
\* the call started.
C39_WipedIsFinal ==
  /\ [](master.state.tag = "Wiped" => GLOBAL_KILLED)
  /\ [](master.applied => master.state.tag = "Wiped")
  /\ [][\A t \in MasterThreads :
          (/\ master.calls[t].op = "apply_verified_kill"
           /\ master.calls[t].pc = "held"
           /\ master'.calls[t].op = "none")
            => /\ master'.state.tag = "Wiped" /\ master'.applied
               /\ GLOBAL_KILLED' /\ master'.holder = 0]_vars
  /\ [][GLOBAL_KILLED => GLOBAL_KILLED']_vars
  /\ [](\A t \in MasterThreads :
          (master.calls[t].op = "with_key" /\ master.calls[t].fused)
            => master.calls[t].pc # "closure")
  /\ [][(/\ last' # last /\ last'.op = "MasterKeyStore::with_key"
         /\ last'.args[1])
          => ~last'.invoked /\ last'.err = <<"Wiped">>]_vars

\* C39's case: apply_verified_kill has returned, and an unlock that started
\* before the fuse was set found it set after taking the mutex and returned
\* Wiped, the state being Wiped
C39_UnlockRefusedAfterKill ==
  /\ master.applied /\ master.state.tag = "Wiped" /\ ~master.poisoned
  /\ last.op = "MasterKeyStore::unlock" /\ last.err = <<"Wiped">>
  /\ last.args = <<FALSE, TRUE>>

\* the shape of the state
TypeOK ==
  /\ GLOBAL_KILLED \in BOOLEAN
  /\ state.tag \in {"Locked", "Active", "Killed"}
  /\ poisoned \in BOOLEAN
  /\ kpc \in {"idle", "fuse", "wipe", "mark", "halt", "aborted"}
  /\ master.state.tag \in {"Locked", "Unlocked", "Wiped"}
  /\ master.holder \in {0} \cup MasterThreads

====
